---- MODULE Spec2Model ----
(***************************************************************************)
(* The AAPT xmltree manifest parser and security analyzer of               *)
(* src/app/api/android-re/manifest/route.ts: parseAaptXmlTree with its     *)
(* line loop and end-of-input flush, saveComponent, parseBadgingOutput,    *)
(* inferExportedStatus and analyzeSecurityIssues.                          *)
(*                                                                         *)
(* Text is a sequence of one-character strings (<<"3","0">> is "30").      *)
(* A line of the dump is a record                                          *)
(*   [indent, marker, name, quoted, typed, text]                           *)
(* standing for  <indent spaces><marker>: <name>...  :                     *)
(*   marker "E":  E: <name> (line=N)                                       *)
(*   marker "A":  A: android:<name>(0x..)="<text>" (Raw: "<text>")         *)
(*                when quoted, else  A: android:<name>(0x..)=<text>        *)
(*                preceded by (type 0x..) when typed                       *)
(*   any other marker (N: namespace lines, blank lines): no pattern        *)
(* A JavaScript object is a record whose DOMAIN is its set of properties;  *)
(* undefined is the value Undefined, null is Null / NullName.              *)
(***************************************************************************)
EXTENDS Integers, Sequences, FiniteSets, TLC

VARIABLES lines, badging, pc, i, result, currentElement, currentComponent,
          componentType, inIntentFilter, currentIntentFilter, elementDepth,
          componentDepth, intentFilterDepth

vars == <<lines, badging, pc, i, result, currentElement, currentComponent,
          componentType, inIntentFilter, currentIntentFilter, elementDepth,
          componentDepth, intentFilterDepth>>

locals == <<currentElement, currentComponent, componentType, inIntentFilter,
            currentIntentFilter, elementDepth, componentDepth, intentFilterDepth>>

\* ------------------------------------------------------------------------
\* Text constants
\* ------------------------------------------------------------------------
S_Main == <<".", "M", "a", "i", "n">>
S_Other == <<".", "O", "t", "h", "e", "r">>
S_ComTestApp == <<"c", "o", "m", ".", "t", "e", "s", "t", ".", "a", "p", "p">>
S_ActionMain == <<"a", "n", "d", "r", "o", "i", "d", ".", "i", "n", "t", "e", "n", "t", ".", "a", "c", "t", "i", "o", "n", ".", "M", "A", "I", "N">>
S_CategoryLauncher == <<"a", "n", "d", "r", "o", "i", "d", ".", "i", "n", "t", "e", "n", "t", ".", "c", "a", "t", "e", "g", "o", "r", "y", ".", "L", "A", "U", "N", "C", "H", "E", "R">>
S_ActionBoot == <<"a", "n", "d", "r", "o", "i", "d", ".", "i", "n", "t", "e", "n", "t", ".", "a", "c", "t", "i", "o", "n", ".", "B", "O", "O", "T", "_", "C", "O", "M", "P", "L", "E", "T", "E", "D">>
S_ActionCustom == <<"c", "o", "m", ".", "t", "e", "s", "t", ".", "C", "U", "S", "T", "O", "M">>
S_AndroidIntent == <<"a", "n", "d", "r", "o", "i", "d", ".", "i", "n", "t", "e", "n", "t", ".">>
S_Undefined == <<"u", "n", "d", "e", "f", "i", "n", "e", "d">>
S_Perm == <<"c", "o", "m", ".", "t", "e", "s", "t", ".", "P", "E", "R", "M">>
S_BIND == <<"B", "I", "N", "D", "_">>

\* ------------------------------------------------------------------------
\* JavaScript values
\* ------------------------------------------------------------------------
Null == [null |-> TRUE]
NullName == ""
Undefined == <<"undefined">>
EmptyString == <<>>
EmptyObject == [f \in {} |-> TRUE]

\* obj.field = value
SetField(obj, field, value) ==
    [f \in DOMAIN obj \cup {field} |-> IF f = field THEN value ELSE obj[f]]

\* obj.field, undefined when the property is missing
GetField(obj, field) == IF field \in DOMAIN obj THEN obj[field] ELSE Undefined

\* truthiness of a string-or-undefined value
Truthy(s) == s # Undefined /\ s # EmptyString

\* s || ""
OrEmpty(s) == IF Truthy(s) THEN s ELSE EmptyString

DecDigits == <<"0", "1", "2", "3", "4", "5", "6", "7", "8", "9">>
HexLower == DecDigits \o <<"a", "b", "c", "d", "e", "f">>
HexUpper == DecDigits \o <<"A", "B", "C", "D", "E", "F">>
Range(s) == {s[k] : k \in DOMAIN s}
IsDecDigit(c) == c \in Range(DecDigits)
IsHexDigit(c) == c \in Range(HexLower) \cup Range(HexUpper)
DigitValue(c) ==
    IF c \in Range(HexLower) THEN (CHOOSE k \in 1..16 : HexLower[k] = c) - 1
    ELSE (CHOOSE k \in 1..16 : HexUpper[k] = c) - 1
IsDigitOf(c, radix) == IsHexDigit(c) /\ DigitValue(c) < radix
\* the characters parseInt skips before the number: the white space and the
\* line terminators of ECMAScript (TAB, LF, VT, FF, CR, space, NBSP, U+1680,
\* U+FEFF, then U+2000 to U+200A, U+2028, U+2029, U+202F, U+205F, U+3000).
\* A character that a string of a module cannot hold stands in a text as
\* the name of its code point.
WhiteSpace ==
    {"\t", "\n", "", "\f", "\r", " ", " ", " ", "﻿",
     "U+2000", "U+2001", "U+2002", "U+2003", "U+2004", "U+2005",
     "U+2006", "U+2007", "U+2008", "U+2009", "U+200A",
     "U+2028", "U+2029", "U+202F", "U+205F", "U+3000"}

\* the text from position k on
Drop(s, k) == SubSeq(s, k + 1, Len(s))
StartsWith(s, p) == Len(s) >= Len(p) /\ SubSeq(s, 1, Len(p)) = p
Includes(s, p) == \E k \in 0..(Len(s) - Len(p)) : SubSeq(s, k + 1, k + Len(p)) = p

\* length of the longest prefix of s whose characters satisfy the class
RECURSIVE SpanDigits(_, _)
SpanDigits(s, radix) ==
    IF s # <<>> /\ IsDigitOf(Head(s), radix) THEN 1 + SpanDigits(Tail(s), radix) ELSE 0

RECURSIVE DigitsValue(_, _, _)
DigitsValue(s, radix, acc) ==
    IF s = <<>> THEN acc ELSE DigitsValue(Tail(s), radix, acc * radix + DigitValue(Head(s)))

RECURSIVE TrimStart(_)
TrimStart(s) == IF s # <<>> /\ Head(s) \in WhiteSpace THEN TrimStart(Tail(s)) ELSE s

\* parseInt(s, radix); radix 0 stands for a missing radix argument.
\* The result is [nan, n]: NaN when no digit can be read.
ParseInt(s, radix) ==
    LET t == IF s = Undefined THEN S_Undefined ELSE TrimStart(s)
        neg == t # <<>> /\ Head(t) = "-"
        u == IF t # <<>> /\ Head(t) \in {"-", "+"} THEN Tail(t) ELSE t
        hexPrefix == radix \in {0, 16} /\ Len(u) >= 2 /\ u[1] = "0" /\ u[2] \in {"x", "X"}
        r == IF hexPrefix THEN 16 ELSE IF radix = 0 THEN 10 ELSE radix
        v == IF hexPrefix THEN Drop(u, 2) ELSE u
        n == SpanDigits(v, r)
        m == DigitsValue(SubSeq(v, 1, n), r, 0)
    IN IF n = 0 THEN [nan |-> TRUE, n |-> 0]
       ELSE [nan |-> FALSE, n |-> IF neg THEN 0 - m ELSE m]

\* the number read in base 16, as the attribute values are
ParseIntOrZero_Radix16(s) == LET p == ParseInt(s, 16) IN IF p.nan THEN 0 ELSE p.n

\* parseInt(s) || 0
ParseIntOrZero(s) == LET p == ParseInt(s, 0) IN IF p.nan THEN 0 ELSE p.n

RECURSIVE NatToString(_)
NatToString(n) ==
    IF n < 10 THEN <<DecDigits[n + 1]>> ELSE NatToString(n \div 10) \o <<DecDigits[(n % 10) + 1]>>

\* String(n) for an integer n
NumberToString(n) == IF n < 0 THEN <<"-">> \o NatToString(0 - n) ELSE NatToString(n)

\* ------------------------------------------------------------------------
\* Known Android permission protection levels
\* ------------------------------------------------------------------------
AndroidPermissionPrefix == <<"a", "n", "d", "r", "o", "i", "d", ".", "p", "e", "r", "m", "i", "s", "s", "i", "o", "n", ".">>
AndroidPermission(simple) == AndroidPermissionPrefix \o simple
DANGEROUS_PERMISSIONS ==
    { AndroidPermission(<<"R", "E", "A", "D", "_", "C", "A", "L", "E", "N", "D", "A", "R">>),
      AndroidPermission(<<"W", "R", "I", "T", "E", "_", "C", "A", "L", "E", "N", "D", "A", "R">>),
      AndroidPermission(<<"C", "A", "M", "E", "R", "A">>),
      AndroidPermission(<<"R", "E", "A", "D", "_", "C", "O", "N", "T", "A", "C", "T", "S">>),
      AndroidPermission(<<"W", "R", "I", "T", "E", "_", "C", "O", "N", "T", "A", "C", "T", "S">>),
      AndroidPermission(<<"G", "E", "T", "_", "A", "C", "C", "O", "U", "N", "T", "S">>),
      AndroidPermission(<<"A", "C", "C", "E", "S", "S", "_", "F", "I", "N", "E", "_", "L", "O", "C", "A", "T", "I", "O", "N">>),
      AndroidPermission(<<"A", "C", "C", "E", "S", "S", "_", "C", "O", "A", "R", "S", "E", "_", "L", "O", "C", "A", "T", "I", "O", "N">>),
      AndroidPermission(<<"A", "C", "C", "E", "S", "S", "_", "B", "A", "C", "K", "G", "R", "O", "U", "N", "D", "_", "L", "O", "C", "A", "T", "I", "O", "N">>),
      AndroidPermission(<<"R", "E", "C", "O", "R", "D", "_", "A", "U", "D", "I", "O">>),
      AndroidPermission(<<"R", "E", "A", "D", "_", "P", "H", "O", "N", "E", "_", "S", "T", "A", "T", "E">>),
      AndroidPermission(<<"R", "E", "A", "D", "_", "P", "H", "O", "N", "E", "_", "N", "U", "M", "B", "E", "R", "S">>),
      AndroidPermission(<<"C", "A", "L", "L", "_", "P", "H", "O", "N", "E">>),
      AndroidPermission(<<"A", "N", "S", "W", "E", "R", "_", "P", "H", "O", "N", "E", "_", "C", "A", "L", "L", "S">>),
      AndroidPermission(<<"R", "E", "A", "D", "_", "C", "A", "L", "L", "_", "L", "O", "G">>),
      AndroidPermission(<<"W", "R", "I", "T", "E", "_", "C", "A", "L", "L", "_", "L", "O", "G">>),
      AndroidPermission(<<"A", "D", "D", "_", "V", "O", "I", "C", "E", "M", "A", "I", "L">>),
      AndroidPermission(<<"U", "S", "E", "_", "S", "I", "P">>),
      AndroidPermission(<<"P", "R", "O", "C", "E", "S", "S", "_", "O", "U", "T", "G", "O", "I", "N", "G", "_", "C", "A", "L", "L", "S">>),
      AndroidPermission(<<"B", "O", "D", "Y", "_", "S", "E", "N", "S", "O", "R", "S">>),
      AndroidPermission(<<"A", "C", "T", "I", "V", "I", "T", "Y", "_", "R", "E", "C", "O", "G", "N", "I", "T", "I", "O", "N">>),
      AndroidPermission(<<"S", "E", "N", "D", "_", "S", "M", "S">>),
      AndroidPermission(<<"R", "E", "C", "E", "I", "V", "E", "_", "S", "M", "S">>),
      AndroidPermission(<<"R", "E", "A", "D", "_", "S", "M", "S">>),
      AndroidPermission(<<"R", "E", "C", "E", "I", "V", "E", "_", "W", "A", "P", "_", "P", "U", "S", "H">>),
      AndroidPermission(<<"R", "E", "C", "E", "I", "V", "E", "_", "M", "M", "S">>),
      AndroidPermission(<<"R", "E", "A", "D", "_", "E", "X", "T", "E", "R", "N", "A", "L", "_", "S", "T", "O", "R", "A", "G", "E">>),
      AndroidPermission(<<"W", "R", "I", "T", "E", "_", "E", "X", "T", "E", "R", "N", "A", "L", "_", "S", "T", "O", "R", "A", "G", "E">>),
      AndroidPermission(<<"R", "E", "A", "D", "_", "M", "E", "D", "I", "A", "_", "I", "M", "A", "G", "E", "S">>),
      AndroidPermission(<<"R", "E", "A", "D", "_", "M", "E", "D", "I", "A", "_", "V", "I", "D", "E", "O">>),
      AndroidPermission(<<"R", "E", "A", "D", "_", "M", "E", "D", "I", "A", "_", "A", "U", "D", "I", "O">>),
      AndroidPermission(<<"P", "O", "S", "T", "_", "N", "O", "T", "I", "F", "I", "C", "A", "T", "I", "O", "N", "S">>),
      AndroidPermission(<<"N", "E", "A", "R", "B", "Y", "_", "W", "I", "F", "I", "_", "D", "E", "V", "I", "C", "E", "S">>),
      AndroidPermission(<<"B", "L", "U", "E", "T", "O", "O", "T", "H", "_", "S", "C", "A", "N">>),
      AndroidPermission(<<"B", "L", "U", "E", "T", "O", "O", "T", "H", "_", "A", "D", "V", "E", "R", "T", "I", "S", "E">>),
      AndroidPermission(<<"B", "L", "U", "E", "T", "O", "O", "T", "H", "_", "C", "O", "N", "N", "E", "C", "T">>) }
SIGNATURE_PERMISSIONS ==
    { AndroidPermission(<<"B", "I", "N", "D", "_", "A", "C", "C", "E", "S", "S", "I", "B", "I", "L", "I", "T", "Y", "_", "S", "E", "R", "V", "I", "C", "E">>),
      AndroidPermission(<<"B", "I", "N", "D", "_", "A", "U", "T", "O", "F", "I", "L", "L", "_", "S", "E", "R", "V", "I", "C", "E">>),
      AndroidPermission(<<"B", "I", "N", "D", "_", "C", "A", "R", "R", "I", "E", "R", "_", "S", "E", "R", "V", "I", "C", "E", "S">>),
      AndroidPermission(<<"B", "I", "N", "D", "_", "C", "H", "O", "O", "S", "E", "R", "_", "T", "A", "R", "G", "E", "T", "_", "S", "E", "R", "V", "I", "C", "E">>),
      AndroidPermission(<<"B", "I", "N", "D", "_", "C", "O", "N", "D", "I", "T", "I", "O", "N", "_", "P", "R", "O", "V", "I", "D", "E", "R", "_", "S", "E", "R", "V", "I", "C", "E">>),
      AndroidPermission(<<"B", "I", "N", "D", "_", "D", "E", "V", "I", "C", "E", "_", "A", "D", "M", "I", "N">>),
      AndroidPermission(<<"B", "I", "N", "D", "_", "D", "R", "E", "A", "M", "_", "S", "E", "R", "V", "I", "C", "E">>),
      AndroidPermission(<<"B", "I", "N", "D", "_", "I", "N", "P", "U", "T", "_", "M", "E", "T", "H", "O", "D">>),
      AndroidPermission(<<"B", "I", "N", "D", "_", "M", "I", "D", "I", "_", "D", "E", "V", "I", "C", "E", "_", "S", "E", "R", "V", "I", "C", "E">>),
      AndroidPermission(<<"B", "I", "N", "D", "_", "N", "F", "C", "_", "S", "E", "R", "V", "I", "C", "E">>),
      AndroidPermission(<<"B", "I", "N", "D", "_", "N", "O", "T", "I", "F", "I", "C", "A", "T", "I", "O", "N", "_", "L", "I", "S", "T", "E", "N", "E", "R", "_", "S", "E", "R", "V", "I", "C", "E">>),
      AndroidPermission(<<"B", "I", "N", "D", "_", "P", "R", "I", "N", "T", "_", "S", "E", "R", "V", "I", "C", "E">>),
      AndroidPermission(<<"B", "I", "N", "D", "_", "Q", "U", "I", "C", "K", "_", "A", "C", "C", "E", "S", "S", "_", "W", "A", "L", "L", "E", "T", "_", "S", "E", "R", "V", "I", "C", "E">>),
      AndroidPermission(<<"B", "I", "N", "D", "_", "Q", "U", "I", "C", "K", "_", "S", "E", "T", "T", "I", "N", "G", "S", "_", "T", "I", "L", "E">>),
      AndroidPermission(<<"B", "I", "N", "D", "_", "R", "E", "M", "O", "T", "E", "V", "I", "E", "W", "S">>),
      AndroidPermission(<<"B", "I", "N", "D", "_", "S", "C", "R", "E", "E", "N", "I", "N", "G", "_", "S", "E", "R", "V", "I", "C", "E">>),
      AndroidPermission(<<"B", "I", "N", "D", "_", "T", "E", "L", "E", "C", "O", "M", "_", "C", "O", "N", "N", "E", "C", "T", "I", "O", "N", "_", "S", "E", "R", "V", "I", "C", "E">>),
      AndroidPermission(<<"B", "I", "N", "D", "_", "T", "E", "X", "T", "_", "S", "E", "R", "V", "I", "C", "E">>),
      AndroidPermission(<<"B", "I", "N", "D", "_", "T", "V", "_", "I", "N", "P", "U", "T">>),
      AndroidPermission(<<"B", "I", "N", "D", "_", "V", "I", "S", "U", "A", "L", "_", "V", "O", "I", "C", "E", "M", "A", "I", "L", "_", "S", "E", "R", "V", "I", "C", "E">>),
      AndroidPermission(<<"B", "I", "N", "D", "_", "V", "O", "I", "C", "E", "_", "I", "N", "T", "E", "R", "A", "C", "T", "I", "O", "N">>),
      AndroidPermission(<<"B", "I", "N", "D", "_", "V", "P", "N", "_", "S", "E", "R", "V", "I", "C", "E">>),
      AndroidPermission(<<"B", "I", "N", "D", "_", "V", "R", "_", "L", "I", "S", "T", "E", "N", "E", "R", "_", "S", "E", "R", "V", "I", "C", "E">>),
      AndroidPermission(<<"B", "I", "N", "D", "_", "W", "A", "L", "L", "P", "A", "P", "E", "R">>),
      AndroidPermission(<<"C", "L", "E", "A", "R", "_", "A", "P", "P", "_", "C", "A", "C", "H", "E">>),
      AndroidPermission(<<"M", "A", "N", "A", "G", "E", "_", "D", "O", "C", "U", "M", "E", "N", "T", "S">>),
      AndroidPermission(<<"R", "E", "A", "D", "_", "V", "O", "I", "C", "E", "M", "A", "I", "L">>),
      AndroidPermission(<<"R", "E", "Q", "U", "E", "S", "T", "_", "C", "O", "M", "P", "A", "N", "I", "O", "N", "_", "R", "U", "N", "_", "I", "N", "_", "B", "A", "C", "K", "G", "R", "O", "U", "N", "D">>),
      AndroidPermission(<<"R", "E", "Q", "U", "E", "S", "T", "_", "C", "O", "M", "P", "A", "N", "I", "O", "N", "_", "U", "S", "E", "_", "D", "A", "T", "A", "_", "I", "N", "_", "B", "A", "C", "K", "G", "R", "O", "U", "N", "D">>),
      AndroidPermission(<<"R", "E", "Q", "U", "E", "S", "T", "_", "D", "E", "L", "E", "T", "E", "_", "P", "A", "C", "K", "A", "G", "E", "S">>),
      AndroidPermission(<<"R", "E", "Q", "U", "E", "S", "T", "_", "I", "N", "S", "T", "A", "L", "L", "_", "P", "A", "C", "K", "A", "G", "E", "S">>),
      AndroidPermission(<<"S", "Y", "S", "T", "E", "M", "_", "A", "L", "E", "R", "T", "_", "W", "I", "N", "D", "O", "W">>),
      AndroidPermission(<<"W", "R", "I", "T", "E", "_", "S", "E", "T", "T", "I", "N", "G", "S">>),
      AndroidPermission(<<"W", "R", "I", "T", "E", "_", "V", "O", "I", "C", "E", "M", "A", "I", "L">>) }

\* getPermissionProtectionLevel(permissionName)
getPermissionProtectionLevel(permissionName) ==
    IF permissionName \in DANGEROUS_PERMISSIONS THEN "dangerous"
    ELSE IF permissionName \in SIGNATURE_PERMISSIONS THEN "signature"
    ELSE IF Includes(permissionName, S_BIND) THEN "signature"
    ELSE "normal"

\* ------------------------------------------------------------------------
\* Line patterns of parseAaptXmlTree
\* ------------------------------------------------------------------------
\* Math.floor(leadingSpaces / 2)
Depth(line) == line.indent \div 2

\* line.match(/^\s*E:\s+(\S+)/)
ElementMatch(line) == line.marker = "E" /\ line.name # ""

\* the alternative (0x[0-9a-fA-F]+|-?\d+) at the start of an unquoted
\* value: the matched text, or Undefined when neither branch matches
NumberMatch(text) ==
    LET hexLen == IF StartsWith(text, <<"0", "x">>) THEN SpanDigits(Drop(text, 2), 16) ELSE 0
        neg == text # <<>> /\ Head(text) = "-"
        body == IF neg THEN Tail(text) ELSE text
        decLen == SpanDigits(body, 10)
    IN IF hexLen > 0 THEN SubSeq(text, 1, 2 + hexLen)
       ELSE IF decLen > 0 THEN SubSeq(text, 1, decLen + (IF neg THEN 1 ELSE 0))
       ELSE Undefined

\* the attribute pattern without its value alternatives
AttrMatch_AnyValue(line) == line.marker = "A" /\ line.name # ""

\* line.match(/^\s*A:\s+(?:android:)?(\w+)(?:\([^)]*\))?=(?:"([^"]*)"|...)/)
AttrMatch(line) ==
    /\ line.marker = "A"
    /\ line.name # ""
    /\ (line.quoted \/ NumberMatch(line.text) # Undefined)

\* attrMatch[2] and attrMatch[3]
StringValue(line) == IF line.quoted THEN line.text ELSE Undefined
HexValue(line) == IF line.quoted THEN Undefined ELSE NumberMatch(line.text)

\* the number read in base 10
NumericFromHex_Radix10(hexValue, stringValue) ==
    IF Truthy(hexValue) THEN NumberToString(ParseInt(hexValue, 10).n) ELSE OrEmpty(stringValue)

\* hexValue ? String(parseInt(hexValue, 16)) : stringValue || ""
NumericFromHex(hexValue, stringValue) ==
    IF Truthy(hexValue) THEN NumberToString(ParseInt(hexValue, 16).n) ELSE OrEmpty(stringValue)

\* the test of allowBackup used for every boolean attribute
BooleanFromHex_NonZero(hexValue) == hexValue # <<"0", "x", "0">> /\ hexValue # <<"0">>

\* hexValue === "0xffffffff" || hexValue === "-1"
BooleanFromHex(hexValue) ==
    hexValue = <<"0", "x", "f", "f", "f", "f", "f", "f", "f", "f">> \/ hexValue = <<"-", "1">>

\* hexValue !== "0x0" && hexValue !== "0"
AllowBackupFromHex(hexValue) == hexValue # <<"0", "x", "0">> /\ hexValue # <<"0">>

\* ------------------------------------------------------------------------
\* The document and the parser's open-scope state
\* ------------------------------------------------------------------------
\* the literal with allowBackup defaulting to false
InitialResult_BackupOff ==
    [package |-> EmptyString, versionCode |-> EmptyString, versionName |-> EmptyString,
     minSdk |-> EmptyString, targetSdk |-> EmptyString,
     permissions |-> <<>>, activities |-> <<>>, services |-> <<>>,
     receivers |-> <<>>, providers |-> <<>>, securityIssues |-> <<>>,
     debuggable |-> FALSE, allowBackup |-> FALSE]

\* the ManifestResult literal at the top of parseAaptXmlTree
InitialResult ==
    [package |-> EmptyString, versionCode |-> EmptyString, versionName |-> EmptyString,
     minSdk |-> EmptyString, targetSdk |-> EmptyString,
     permissions |-> <<>>, activities |-> <<>>, services |-> <<>>,
     receivers |-> <<>>, providers |-> <<>>, securityIssues |-> <<>>,
     debuggable |-> FALSE, allowBackup |-> TRUE]

\* the let-declarations before the loop, with the document
InitialState ==
    [result |-> InitialResult, currentElement |-> NullName, currentComponent |-> Null,
     componentType |-> NullName, inIntentFilter |-> FALSE,
     currentIntentFilter |-> EmptyObject, elementDepth |-> 0,
     componentDepth |-> 0, intentFilterDepth |-> 0]

\* saveComponent without the name check
saveComponent_NoNameCheck(res, component, type) ==
    IF type = NullName THEN res
    ELSE CASE type = "activity" -> [res EXCEPT !.activities = Append(@, component)]
           [] type = "service" -> [res EXCEPT !.services = Append(@, component)]
           [] type = "receiver" -> [res EXCEPT !.receivers = Append(@, component)]
           [] type = "provider" -> [res EXCEPT !.providers = Append(@, component)]

\* saveComponent putting the component in front of its list
saveComponent_Prepending(res, component, type) ==
    IF type = NullName \/ ~Truthy(GetField(component, "name")) THEN res
    ELSE CASE type = "activity" -> [res EXCEPT !.activities = <<component>> \o @]
           [] type = "service" -> [res EXCEPT !.services = <<component>> \o @]
           [] type = "receiver" -> [res EXCEPT !.receivers = <<component>> \o @]
           [] type = "provider" -> [res EXCEPT !.providers = <<component>> \o @]

\* saveComponent(result, component, type)
saveComponent(res, component, type) ==
    IF type = NullName \/ ~Truthy(GetField(component, "name")) THEN res
    ELSE CASE type = "activity" -> [res EXCEPT !.activities = Append(@, component)]
           [] type = "service" -> [res EXCEPT !.services = Append(@, component)]
           [] type = "receiver" -> [res EXCEPT !.receivers = Append(@, component)]
           [] type = "provider" -> [res EXCEPT !.providers = Append(@, component)]

\* currentComponent.intentFilters.push({ ...currentIntentFilter })
PushFilter(component, filter) ==
    SetField(component, "intentFilters", Append(component.intentFilters, filter))

\* "End current component if we're at same or higher level"
CloseComponent(s, currentDepth) ==
    IF s.currentComponent # Null /\ s.componentDepth >= currentDepth
    THEN [s EXCEPT !.result = saveComponent(s.result, s.currentComponent, s.componentType),
                   !.currentComponent = Null,
                   !.componentType = NullName]
    ELSE s

\* "End intent filter if we're at same or higher level"
CloseIntentFilter(s, currentDepth) ==
    IF s.inIntentFilter /\ s.intentFilterDepth >= currentDepth
    THEN [s EXCEPT !.currentComponent =
                       IF @ # Null /\ "intentFilters" \in DOMAIN @
                       THEN PushFilter(@, s.currentIntentFilter) ELSE @,
                   !.inIntentFilter = FALSE,
                   !.currentIntentFilter = EmptyObject]
    ELSE s

\* switch (elementName)
OpenElement(s, elementName, currentDepth) ==
    CASE elementName \in {"activity", "activity-alias"} ->
           [s EXCEPT !.currentComponent =
                         [name |-> EmptyString, exported |-> FALSE, intentFilters |-> <<>>],
                     !.componentType = "activity",
                     !.componentDepth = currentDepth]
      [] elementName = "service" ->
           [s EXCEPT !.currentComponent = [name |-> EmptyString, exported |-> FALSE],
                     !.componentType = "service",
                     !.componentDepth = currentDepth]
      [] elementName = "receiver" ->
           [s EXCEPT !.currentComponent =
                         [name |-> EmptyString, exported |-> FALSE, intentFilters |-> <<>>],
                     !.componentType = "receiver",
                     !.componentDepth = currentDepth]
      [] elementName = "provider" ->
           [s EXCEPT !.currentComponent = [name |-> EmptyString, exported |-> FALSE],
                     !.componentType = "provider",
                     !.componentDepth = currentDepth]
      [] elementName = "intent-filter" ->
           [s EXCEPT !.inIntentFilter = TRUE,
                     !.intentFilterDepth = currentDepth,
                     !.currentIntentFilter = EmptyObject]
      [] OTHER -> s

\* the element step closing the intent-filter before the component
ElementStep_FilterFirst(s, line) ==
    LET currentDepth == Depth(line)
        s1 == [s EXCEPT !.elementDepth = currentDepth]
        s2 == CloseIntentFilter(s1, currentDepth)
        s3 == CloseComponent(s2, currentDepth)
        s4 == [s3 EXCEPT !.currentElement = line.name]
    IN OpenElement(s4, line.name, currentDepth)

\* the body of  if (elementMatch) { ... continue; }
ElementStep(s, line) ==
    LET currentDepth == Depth(line)
        s1 == [s EXCEPT !.elementDepth = currentDepth]
        s2 == CloseComponent(s1, currentDepth)
        s3 == CloseIntentFilter(s2, currentDepth)
        s4 == [s3 EXCEPT !.currentElement = line.name]
    IN OpenElement(s4, line.name, currentDepth)

\* `${attrName}` for the data attributes
AttrNameText(attrName) ==
    CASE attrName = "scheme" -> <<"s", "c", "h", "e", "m", "e">>
      [] attrName = "host" -> <<"h", "o", "s", "t">>
      [] attrName = "path" -> <<"p", "a", "t", "h">>

\* `${stringValue}`
TemplateText(v) == IF v = Undefined THEN S_Undefined ELSE v

\* "Handle manifest-level attributes"
ManifestAttr(res, currentElem, attrName, stringValue, hexValue) ==
    IF currentElem # "manifest" THEN res
    ELSE IF attrName = "package" THEN [res EXCEPT !.package = OrEmpty(stringValue)]
    ELSE IF attrName = "versionCode"
         THEN [res EXCEPT !.versionCode = NumericFromHex(hexValue, stringValue)]
    ELSE IF attrName = "versionName" THEN [res EXCEPT !.versionName = OrEmpty(stringValue)]
    ELSE res

\* "Handle uses-sdk attributes"
UsesSdkAttr(res, currentElem, attrName, stringValue, hexValue) ==
    IF currentElem # "uses-sdk" THEN res
    ELSE IF attrName = "minSdkVersion"
         THEN [res EXCEPT !.minSdk = NumericFromHex(hexValue, stringValue)]
    ELSE IF attrName = "targetSdkVersion"
         THEN [res EXCEPT !.targetSdk = NumericFromHex(hexValue, stringValue)]
    ELSE res

\* uses-permission keeping one entry per permission name
UsesPermissionAttr_Distinct(res, currentElem, attrName, stringValue) ==
    LET permName == OrEmpty(stringValue)
    IN IF /\ currentElem = "uses-permission" /\ attrName = "name" /\ Truthy(permName)
          /\ \A k \in DOMAIN res.permissions : res.permissions[k].name # permName
       THEN [res EXCEPT !.permissions =
                 Append(@, [name |-> permName,
                            protectionLevel |-> getPermissionProtectionLevel(permName)])]
       ELSE res

\* "Handle uses-permission"
UsesPermissionAttr(res, currentElem, attrName, stringValue) ==
    LET permName == OrEmpty(stringValue)
    IN IF currentElem = "uses-permission" /\ attrName = "name" /\ Truthy(permName)
       THEN [res EXCEPT !.permissions =
                 Append(@, [name |-> permName,
                            protectionLevel |-> getPermissionProtectionLevel(permName)])]
       ELSE res

\* "Handle application attributes"
ApplicationAttr(res, currentElem, attrName, hexValue) ==
    IF currentElem # "application" THEN res
    ELSE IF attrName = "debuggable" THEN [res EXCEPT !.debuggable = BooleanFromHex(hexValue)]
    ELSE IF attrName = "allowBackup"
         THEN [res EXCEPT !.allowBackup = AllowBackupFromHex(hexValue)]
    ELSE res

\* "Handle component attributes"
ComponentAttr(component, type, attrName, stringValue, hexValue) ==
    IF component = Null THEN component
    ELSE IF attrName = "name" THEN SetField(component, "name", OrEmpty(stringValue))
    ELSE IF attrName = "exported"
         THEN SetField(component, "exported", BooleanFromHex(hexValue))
    ELSE IF attrName = "permission" THEN SetField(component, "permission", stringValue)
    ELSE IF attrName = "authorities" /\ type = "provider"
         THEN SetField(component, "authorities", stringValue)
    ELSE IF attrName = "readPermission" /\ type = "provider"
         THEN SetField(component, "readPermission", stringValue)
    ELSE IF attrName = "writePermission" /\ type = "provider"
         THEN SetField(component, "writePermission", stringValue)
    ELSE component

\* the intent-filter children keeping the first action and category
IntentFilterAttr_KeepFirst(filter, inFilter, currentElem, attrName, stringValue) ==
    IF ~inFilter THEN filter
    ELSE IF currentElem = "action" /\ attrName = "name"
         THEN IF "action" \in DOMAIN filter THEN filter
              ELSE SetField(filter, "action", stringValue)
    ELSE IF currentElem = "category" /\ attrName = "name"
         THEN IF "category" \in DOMAIN filter THEN filter
              ELSE SetField(filter, "category", stringValue)
    ELSE IF currentElem = "data" /\ attrName \in {"scheme", "host", "path"}
         THEN LET dataStr == OrEmpty(GetField(filter, "data"))
              IN SetField(filter, "data",
                          dataStr \o (IF Truthy(dataStr) THEN <<",", " ">> ELSE <<>>)
                                  \o AttrNameText(attrName) \o <<"=">>
                                  \o TemplateText(stringValue))
    ELSE filter

\* "Handle intent-filter children"
IntentFilterAttr(filter, inFilter, currentElem, attrName, stringValue) ==
    IF ~inFilter THEN filter
    ELSE IF currentElem = "action" /\ attrName = "name"
         THEN SetField(filter, "action", stringValue)
    ELSE IF currentElem = "category" /\ attrName = "name"
         THEN SetField(filter, "category", stringValue)
    ELSE IF currentElem = "data" /\ attrName \in {"scheme", "host", "path"}
         THEN LET dataStr == OrEmpty(GetField(filter, "data"))
              IN SetField(filter, "data",
                          dataStr \o (IF Truthy(dataStr) THEN <<",", " ">> ELSE <<>>)
                                  \o AttrNameText(attrName) \o <<"=">>
                                  \o TemplateText(stringValue))
    ELSE filter

\* the attribute step filling the component only from lines directly under
\* the component's element
AttrStep_UnderComponentOnly(s, line) ==
    LET attrName == line.name
        stringValue == StringValue(line)
        hexValue == HexValue(line)
        r1 == ManifestAttr(s.result, s.currentElement, attrName, stringValue, hexValue)
        r2 == UsesSdkAttr(r1, s.currentElement, attrName, stringValue, hexValue)
        r3 == UsesPermissionAttr(r2, s.currentElement, attrName, stringValue)
        r4 == ApplicationAttr(r3, s.currentElement, attrName, hexValue)
    IN [s EXCEPT !.result = r4,
                 !.currentComponent =
                     IF s.currentElement \in {"activity", "activity-alias", "service",
                                              "receiver", "provider"}
                     THEN ComponentAttr(@, s.componentType, attrName, stringValue, hexValue)
                     ELSE @,
                 !.currentIntentFilter =
                     IntentFilterAttr(@, s.inIntentFilter, s.currentElement,
                                      attrName, stringValue)]

\* the body of  if (attrMatch) { ... }
AttrStep(s, line) ==
    LET attrName == line.name
        stringValue == StringValue(line)
        hexValue == HexValue(line)
        r1 == ManifestAttr(s.result, s.currentElement, attrName, stringValue, hexValue)
        r2 == UsesSdkAttr(r1, s.currentElement, attrName, stringValue, hexValue)
        r3 == UsesPermissionAttr(r2, s.currentElement, attrName, stringValue)
        r4 == ApplicationAttr(r3, s.currentElement, attrName, hexValue)
    IN [s EXCEPT !.result = r4,
                 !.currentComponent =
                     ComponentAttr(@, s.componentType, attrName, stringValue, hexValue),
                 !.currentIntentFilter =
                     IntentFilterAttr(@, s.inIntentFilter, s.currentElement,
                                      attrName, stringValue)]

\* one iteration of  for (const line of lines)
LineStep(s, line) ==
    IF ElementMatch(line) THEN ElementStep(s, line)
    ELSE IF AttrMatch(line) THEN AttrStep(s, line)
    ELSE s

\* "Save any remaining component", after the loop
FlushStep(s) ==
    IF s.currentComponent # Null
    THEN LET component ==
                 IF s.inIntentFilter /\ "intentFilters" \in DOMAIN s.currentComponent
                 THEN PushFilter(s.currentComponent, s.currentIntentFilter)
                 ELSE s.currentComponent
         IN [s EXCEPT !.currentComponent = component,
                      !.result = saveComponent(s.result, component, s.componentType)]
    ELSE s

\* the whole loop over the given lines, from state s
RECURSIVE ParseLines(_, _)
ParseLines(s, ls) ==
    IF ls = <<>> THEN s ELSE ParseLines(LineStep(s, Head(ls)), Tail(ls))

\* the loop and the save of the remaining component
ParseToFlush(ls) == FlushStep(ParseLines(InitialState, ls))

\* ------------------------------------------------------------------------
\* parseBadgingOutput
\* ------------------------------------------------------------------------
\* The badging text is a sequence of entries [key, name, versionCode,
\* versionName, value]:
\*   key "package":           package: name='..' versionCode='..' versionName='..'
\*   key "sdkVersion":        sdkVersion:'<value>'
\*   key "targetSdkVersion":  targetSdkVersion:'<value>'
\* The empty sequence is the empty text.
AllDigits(s) == s # <<>> /\ \A k \in DOMAIN s : IsDecDigit(s[k])

\* the package pattern asking for the name alone
PackageMatches_NameOnly(text) ==
    SelectSeq(text, LAMBDA e : e.key = "package" /\ e.name # <<>>)

\* badging.match(/package:\s+name='([^']+)'\s+versionCode='([^']+)'\s+versionName='([^']+)'/)
PackageMatches(text) ==
    SelectSeq(text, LAMBDA e : /\ e.key = "package"
                               /\ e.name # <<>> /\ e.versionCode # <<>> /\ e.versionName # <<>>)

\* badging.match(/sdkVersion:'(\d+)'/) and badging.match(/targetSdkVersion:'(\d+)'/)
SdkMatches(text, key) == SelectSeq(text, LAMBDA e : e.key = key /\ AllDigits(e.value))

\* the extraction assigning every field it matches, empty or not
parseBadgingOutput_Overwrite(res, text) ==
    LET packageMatch == PackageMatches(text)
        minSdkMatch == SdkMatches(text, "sdkVersion")
        targetSdkMatch == SdkMatches(text, "targetSdkVersion")
        r1 == IF packageMatch # <<>>
              THEN [res EXCEPT !.package = packageMatch[1].name,
                               !.versionCode = packageMatch[1].versionCode,
                               !.versionName = packageMatch[1].versionName]
              ELSE res
        r2 == IF minSdkMatch # <<>> THEN [r1 EXCEPT !.minSdk = minSdkMatch[1].value] ELSE r1
    IN IF targetSdkMatch # <<>> THEN [r2 EXCEPT !.targetSdk = targetSdkMatch[1].value] ELSE r2

parseBadgingOutput(res, text) ==
    LET packageMatch == PackageMatches(text)
        minSdkMatch == SdkMatches(text, "sdkVersion")
        targetSdkMatch == SdkMatches(text, "targetSdkVersion")
        r1 == IF packageMatch # <<>>
              THEN [res EXCEPT
                      !.package = IF ~Truthy(@) THEN packageMatch[1].name ELSE @,
                      !.versionCode = IF ~Truthy(@) THEN packageMatch[1].versionCode ELSE @,
                      !.versionName = IF ~Truthy(@) THEN packageMatch[1].versionName ELSE @]
              ELSE res
        r2 == IF minSdkMatch # <<>> /\ ~Truthy(r1.minSdk)
              THEN [r1 EXCEPT !.minSdk = minSdkMatch[1].value] ELSE r1
    IN IF targetSdkMatch # <<>> /\ ~Truthy(r2.targetSdk)
       THEN [r2 EXCEPT !.targetSdk = targetSdkMatch[1].value] ELSE r2

\* the back-fill left out
BadgingStep_Skipped(res, text) == res

\* if (badging) parseBadgingOutput(result, badging)
BadgingStep(res, text) == IF text # <<>> THEN parseBadgingOutput(res, text) ELSE res

\* ------------------------------------------------------------------------
\* inferExportedStatus
\* ------------------------------------------------------------------------
\* the inference with the boundary one too high
inferExportedStatus_Through31(res) ==
    LET targetSdk == ParseIntOrZero(res.targetSdk)
    IN IF targetSdk <= 31
       THEN [res EXCEPT
               !.activities = [k \in DOMAIN @ |-> IF Len(@[k].intentFilters) > 0
                                                  THEN SetField(@[k], "exported", TRUE)
                                                  ELSE @[k]],
               !.receivers = [k \in DOMAIN @ |-> IF Len(@[k].intentFilters) > 0
                                                 THEN SetField(@[k], "exported", TRUE)
                                                 ELSE @[k]]]
       ELSE res

\* if (c.intentFilters.length > 0 && !c.exported) c.exported = true
InferComponent(c) ==
    IF Len(c.intentFilters) > 0 /\ ~c.exported THEN SetField(c, "exported", TRUE) ELSE c

\* the inference left out when targetSdk is not a number
inferExportedStatus_ParsedOnly(res) ==
    LET targetSdk == ParseInt(res.targetSdk, 0)
    IN IF ~targetSdk.nan /\ targetSdk.n < 31
       THEN [res EXCEPT
               !.activities = [k \in DOMAIN @ |-> InferComponent(@[k])],
               !.receivers = [k \in DOMAIN @ |-> InferComponent(@[k])]]
       ELSE res

inferExportedStatus(res) ==
    LET targetSdk == ParseIntOrZero(res.targetSdk)
    IN IF targetSdk < 31
       THEN [res EXCEPT
               !.activities = [k \in DOMAIN @ |-> InferComponent(@[k])],
               !.receivers = [k \in DOMAIN @ |-> InferComponent(@[k])]]
       ELSE res

\* ------------------------------------------------------------------------
\* analyzeSecurityIssues
\* ------------------------------------------------------------------------
\* The issue text is the tuple of its template and interpolated values.
DebuggableIssue ==
    [severity |-> "high", issue |-> <<"Application is debuggable.">>]
AllowBackupIssue ==
    [severity |-> "medium", issue |-> <<"Application allows backup.">>]
ActivityIssue(c) ==
    [severity |-> "high", issue |-> <<"Exported activity without permission protection.">>,
     component |-> c.name]
ServiceIssue(c) ==
    [severity |-> "high", issue |-> <<"Exported service without permission protection.">>,
     component |-> c.name]
ReceiverIssue(c) ==
    [severity |-> "medium",
     issue |-> <<"Exported broadcast receiver with custom intent-filter.">>,
     component |-> c.name]
ProviderIssue(c) ==
    [severity |-> "high",
     issue |-> <<"Exported content provider without permission protection.">>,
     component |-> c.name]
DangerousIssue(n) ==
    [severity |-> "medium",
     issue |-> <<"Application requests ${n} dangerous permissions.", NumberToString(n)>>]
TargetSdkIssue(n) ==
    [severity |-> "low", issue |-> <<"Target SDK (${n}) is below 28.", NumberToString(n)>>]
MinSdkIssue(n) ==
    [severity |-> "medium", issue |-> <<"Minimum SDK (${n}) is below 21 (Lollipop).", NumberToString(n)>>]

\* the launcher test on the action alone
IsLauncher_ActionOnly(activity) ==
    \E k \in DOMAIN activity.intentFilters :
        GetField(activity.intentFilters[k], "action") = S_ActionMain

\* activity.intentFilters.some(f => f.action === MAIN && f.category === LAUNCHER)
IsLauncher(activity) ==
    \E k \in DOMAIN activity.intentFilters :
        /\ GetField(activity.intentFilters[k], "action") = S_ActionMain
        /\ GetField(activity.intentFilters[k], "category") = S_CategoryLauncher

ActivityFires(activity) ==
    activity.exported /\ ~Truthy(GetField(activity, "permission")) /\ ~IsLauncher(activity)

\* the service rule without the exported test
ServiceFires_Unprotected(service) == ~Truthy(GetField(service, "permission"))

ServiceFires(service) ==
    service.exported /\ ~Truthy(GetField(service, "permission"))

\* the system-broadcast test asking every filter instead of some
IsSystemBroadcast_EveryFilter(receiver) ==
    \A k \in DOMAIN receiver.intentFilters :
        LET action == GetField(receiver.intentFilters[k], "action")
        IN action # Undefined /\ StartsWith(action, S_AndroidIntent)

\* receiver.intentFilters.some(f => f.action?.startsWith("android.intent."))
IsSystemBroadcast(receiver) ==
    \E k \in DOMAIN receiver.intentFilters :
        LET action == GetField(receiver.intentFilters[k], "action")
        IN action # Undefined /\ StartsWith(action, S_AndroidIntent)

ReceiverFires(receiver) ==
    receiver.exported /\ Len(receiver.intentFilters) > 0 /\ ~IsSystemBroadcast(receiver)

\* the provider rule looking at permission alone
ProviderFires_PermissionOnly(provider) ==
    provider.exported /\ ~Truthy(GetField(provider, "permission"))

ProviderFires(provider) ==
    /\ provider.exported
    /\ ~Truthy(GetField(provider, "permission"))
    /\ ~Truthy(GetField(provider, "readPermission"))
    /\ ~Truthy(GetField(provider, "writePermission"))

\* for (const activity of manifest.activities) ...
ActivityIssues(manifest) ==
    LET hits == SelectSeq(manifest.activities, ActivityFires)
    IN [k \in DOMAIN hits |-> ActivityIssue(hits[k])]

\* the services loop leaving out findings the document already lists
ServiceIssues_Deduplicated(manifest) ==
    LET hits == SelectSeq(manifest.services, ServiceFires)
        fresh == SelectSeq(hits, LAMBDA c : \A n \in DOMAIN manifest.securityIssues :
                                                manifest.securityIssues[n] # ServiceIssue(c))
    IN [k \in DOMAIN fresh |-> ServiceIssue(fresh[k])]

\* for (const service of manifest.services) ...
ServiceIssues(manifest) ==
    LET hits == SelectSeq(manifest.services, ServiceFires)
    IN [k \in DOMAIN hits |-> ServiceIssue(hits[k])]

\* for (const receiver of manifest.receivers) ...
ReceiverIssues(manifest) ==
    LET hits == SelectSeq(manifest.receivers, ReceiverFires)
    IN [k \in DOMAIN hits |-> ReceiverIssue(hits[k])]

\* for (const provider of manifest.providers) ...
ProviderIssues(manifest) ==
    LET hits == SelectSeq(manifest.providers, ProviderFires)
    IN [k \in DOMAIN hits |-> ProviderIssue(hits[k])]

\* the count of the distinct dangerous permission names
DangerousCount_Distinct(manifest) ==
    Cardinality({manifest.permissions[k].name : k \in
                    {j \in DOMAIN manifest.permissions :
                        manifest.permissions[j].protectionLevel = "dangerous"}})

\* manifest.permissions.filter(p => p.protectionLevel === "dangerous").length
DangerousCount(manifest) ==
    Len(SelectSeq(manifest.permissions, LAMBDA p : p.protectionLevel = "dangerous"))

\* the analysis with the manifest-wide rules ahead of the component rules
analyzeSecurityIssues_ManifestWideFirst(manifest) ==
    LET targetSdk == ParseIntOrZero(manifest.targetSdk)
        minSdk == ParseIntOrZero(manifest.minSdk)
    IN    (IF manifest.debuggable THEN <<DebuggableIssue>> ELSE <<>>)
       \o (IF manifest.allowBackup THEN <<AllowBackupIssue>> ELSE <<>>)
       \o (IF DangerousCount(manifest) > 5
           THEN <<DangerousIssue(DangerousCount(manifest))>> ELSE <<>>)
       \o (IF targetSdk > 0 /\ targetSdk < 28 THEN <<TargetSdkIssue(targetSdk)>> ELSE <<>>)
       \o (IF minSdk > 0 /\ minSdk < 21 THEN <<MinSdkIssue(minSdk)>> ELSE <<>>)
       \o ActivityIssues(manifest)
       \o ServiceIssues(manifest)
       \o ReceiverIssues(manifest)
       \o ProviderIssues(manifest)

analyzeSecurityIssues(manifest) ==
    LET targetSdk == ParseIntOrZero(manifest.targetSdk)
        minSdk == ParseIntOrZero(manifest.minSdk)
    IN    (IF manifest.debuggable THEN <<DebuggableIssue>> ELSE <<>>)
       \o (IF manifest.allowBackup THEN <<AllowBackupIssue>> ELSE <<>>)
       \o ActivityIssues(manifest)
       \o ServiceIssues(manifest)
       \o ReceiverIssues(manifest)
       \o ProviderIssues(manifest)
       \o (IF DangerousCount(manifest) > 5
           THEN <<DangerousIssue(DangerousCount(manifest))>> ELSE <<>>)
       \o (IF targetSdk > 0 /\ targetSdk < 28 THEN <<TargetSdkIssue(targetSdk)>> ELSE <<>>)
       \o (IF minSdk > 0 /\ minSdk < 21 THEN <<MinSdkIssue(minSdk)>> ELSE <<>>)

\* ------------------------------------------------------------------------
\* The run of parseAndroidManifest: parseAaptXmlTree, then analysis
\* ------------------------------------------------------------------------
State ==
    [result |-> result, currentElement |-> currentElement,
     currentComponent |-> currentComponent, componentType |-> componentType,
     inIntentFilter |-> inIntentFilter, currentIntentFilter |-> currentIntentFilter,
     elementDepth |-> elementDepth, componentDepth |-> componentDepth,
     intentFilterDepth |-> intentFilterDepth]

Assign(s) ==
    /\ result' = s.result
    /\ currentElement' = s.currentElement
    /\ currentComponent' = s.currentComponent
    /\ componentType' = s.componentType
    /\ inIntentFilter' = s.inIntentFilter
    /\ currentIntentFilter' = s.currentIntentFilter
    /\ elementDepth' = s.elementDepth
    /\ componentDepth' = s.componentDepth
    /\ intentFilterDepth' = s.intentFilterDepth

Assign0(s) ==
    /\ result = s.result
    /\ currentElement = s.currentElement
    /\ currentComponent = s.currentComponent
    /\ componentType = s.componentType
    /\ inIntentFilter = s.inIntentFilter
    /\ currentIntentFilter = s.currentIntentFilter
    /\ elementDepth = s.elementDepth
    /\ componentDepth = s.componentDepth
    /\ intentFilterDepth = s.intentFilterDepth

\* an element line
ElementLine ==
    /\ pc = "loop" /\ i <= Len(lines) /\ ElementMatch(lines[i])
    /\ Assign(ElementStep(State, lines[i]))
    /\ i' = i + 1
    /\ UNCHANGED <<lines, badging, pc>>

\* an attribute line
AttrLine ==
    /\ pc = "loop" /\ i <= Len(lines)
    /\ ~ElementMatch(lines[i]) /\ AttrMatch(lines[i])
    /\ Assign(AttrStep(State, lines[i]))
    /\ i' = i + 1
    /\ UNCHANGED <<lines, badging, pc>>

\* a line that matches neither pattern
OtherLine ==
    /\ pc = "loop" /\ i <= Len(lines)
    /\ ~ElementMatch(lines[i]) /\ ~AttrMatch(lines[i])
    /\ i' = i + 1
    /\ UNCHANGED <<lines, badging, pc, result, locals>>

\* end of input: save any remaining component
Flush ==
    /\ pc = "loop" /\ i > Len(lines)
    /\ Assign(FlushStep(State))
    /\ pc' = "badging"
    /\ UNCHANGED <<lines, badging, i>>

\* extract additional info from badging output if available
Badging ==
    /\ pc = "badging"
    /\ result' = BadgingStep(result, badging)
    /\ pc' = "infer"
    /\ UNCHANGED <<lines, badging, i, locals>>

\* inferExportedStatus(result); return result
Infer ==
    /\ pc = "infer"
    /\ result' = inferExportedStatus(result)
    /\ pc' = "analyze"
    /\ UNCHANGED <<lines, badging, i, locals>>

\* result.securityIssues = analyzeSecurityIssues(result); return result
Analyze ==
    /\ pc = "analyze"
    /\ result' = [result EXCEPT !.securityIssues = analyzeSecurityIssues(result)]
    /\ pc' = "done"
    /\ UNCHANGED <<lines, badging, i, locals>>

Next == ElementLine \/ AttrLine \/ OtherLine \/ Flush \/ Badging \/ Infer \/ Analyze

\* ------------------------------------------------------------------------
\* Inputs
\* ------------------------------------------------------------------------
\* E: <name> (line=N)
ElementLineOf(indent, name) ==
    [indent |-> indent, marker |-> "E", name |-> name, quoted |-> FALSE,
     typed |-> FALSE, text |-> <<>>]

\* A: android:<name>(0x..)="<text>" (Raw: "<text>")
QuotedAttr(indent, name, text) ==
    [indent |-> indent, marker |-> "A", name |-> name, quoted |-> TRUE,
     typed |-> FALSE, text |-> text]

\* A: android:<name>(0x..)=(type 0x..)<text>
TypedAttr(indent, name, text) ==
    [indent |-> indent, marker |-> "A", name |-> name, quoted |-> FALSE,
     typed |-> TRUE, text |-> text]

\* A: android:<name>(0x..)=@0x7f0e0001, a resource reference
ReferenceAttr(indent, name) ==
    [indent |-> indent, marker |-> "A", name |-> name, quoted |-> FALSE,
     typed |-> FALSE, text |-> <<"@", "0", "x", "7", "f", "0", "e", "0", "0", "0", "1">>]

\* N: android=http://schemas.android.com/apk/res/android
NamespaceLine ==
    [indent |-> 0, marker |-> "N", name |-> "android", quoted |-> FALSE,
     typed |-> FALSE, text |-> <<>>]

\* the empty line
BlankLine ==
    [indent |-> 0, marker |-> "", name |-> "", quoted |-> FALSE,
     typed |-> FALSE, text |-> <<>>]

HexTrue == <<"0", "x", "f", "f", "f", "f", "f", "f", "f", "f">>
HexFalse == <<"0", "x", "0">>
HexOne == <<"0", "x", "1">>
Hex30 == <<"0", "x", "1", "e">>
Hex31 == <<"0", "x", "1", "f">>
Dec30 == <<"3", "0">>
Dec31 == <<"3", "1">>
Dec33 == <<"3", "3">>

\* targetSdkVersion:'<value>'
BadgingTargetSdk(value) ==
    [key |-> "targetSdkVersion", name |-> <<>>, versionCode |-> <<>>,
     versionName |-> <<>>, value |-> value]

\* all sequences over S of length at most n
SeqsUpTo(S, n) == UNION {[1..k -> S] : k \in 0..n}

RECURSIVE Flatten(_)
Flatten(blocks) == IF blocks = <<>> THEN <<>> ELSE Head(blocks) \o Flatten(Tail(blocks))

\* the texts made of at most n of the given blocks of lines
Inputs(blocks, n) == {Flatten(bs) : bs \in SeqsUpTo(blocks, n)}

\* the state when parseAaptXmlTree enters its loop
InitWith(inputs, badgings) ==
    /\ lines \in inputs
    /\ badging \in badgings
    /\ pc = "loop"
    /\ i = 1
    /\ Assign0(InitialState)

MaxLines == 5

\* component scopes: an activity, an intent-filter under it, a service one
\* level below the activity, a name given as text and as a number, and a
\* namespace line followed by an attribute line without attribute name
ScopeLines ==
    { <<ElementLineOf(4, "activity")>>,
      <<ElementLineOf(6, "intent-filter")>>,
      <<ElementLineOf(6, "service")>>,
      <<QuotedAttr(6, "name", S_Main)>>,
      <<TypedAttr(6, "name", HexOne)>>,
      <<ReferenceAttr(6, "name")>>,
      <<NamespaceLine, QuotedAttr(6, "", S_Main)>> }

Init == InitWith(Inputs(ScopeLines, MaxLines), {<<>>})

Spec == Init /\ [][Next]_vars

MaxFlagLines == 3

MinusOne == <<"-", "1">>
DecZero == <<"0">>
S_True == <<"t", "r", "u", "e">>

\* application flags: allowBackup and debuggable lines under the
\* application element and under an activity
FlagLines ==
    { <<ElementLineOf(2, "application")>>,
      <<ElementLineOf(4, "activity")>>,
      <<TypedAttr(4, "allowBackup", HexTrue)>>,
      <<TypedAttr(4, "allowBackup", MinusOne)>>,
      <<TypedAttr(4, "allowBackup", HexFalse)>>,
      <<TypedAttr(4, "allowBackup", DecZero)>>,
      <<TypedAttr(4, "allowBackup", HexOne)>>,
      <<QuotedAttr(4, "allowBackup", S_True)>>,
      <<TypedAttr(4, "debuggable", HexTrue)>>,
      <<NamespaceLine>> }

InitFlags == InitWith(Inputs(FlagLines, MaxFlagLines), {<<>>})

SpecFlags == InitFlags /\ [][Next]_vars

MaxExportBlocks == 4

\* named components of the four kinds, explicit exported flags and
\* intent-filters; the text ends with the empty line after the last newline
ExportBlocks ==
    { <<ElementLineOf(4, "activity"), QuotedAttr(6, "name", S_Main)>>,
      <<ElementLineOf(4, "receiver"), QuotedAttr(6, "name", S_Other)>>,
      <<ElementLineOf(4, "service"), QuotedAttr(6, "name", S_Main)>>,
      <<ElementLineOf(4, "provider"), QuotedAttr(6, "name", S_Other)>>,
      <<TypedAttr(6, "exported", HexFalse)>>,
      <<TypedAttr(6, "exported", HexTrue)>>,
      <<ElementLineOf(6, "intent-filter")>> }

ExportInputs == {text \o <<BlankLine>> : text \in Inputs(ExportBlocks, MaxExportBlocks)}

\* no badging text, or one that gives targetSdkVersion:'30' or '31'
ExportBadgings == {<<>>, <<BadgingTargetSdk(Dec30)>>, <<BadgingTargetSdk(Dec31)>>}

InitExport == InitWith(ExportInputs, ExportBadgings)

SpecExport == InitExport /\ [][Next]_vars

MaxAnalyzeBlocks == 4

\* an intent-filter with the given action and category lines under it
FilterBlock(children) == <<ElementLineOf(6, "intent-filter")>> \o children
ActionMainLines ==
    <<ElementLineOf(8, "action"), QuotedAttr(10, "name", S_ActionMain)>>
CategoryLauncherLines ==
    <<ElementLineOf(8, "category"), QuotedAttr(10, "name", S_CategoryLauncher)>>

\* activities with and without exported, permission (also the empty one) and
\* intent-filters carrying MAIN, LAUNCHER or both
AnalyzeBlocks ==
    { <<ElementLineOf(4, "activity"), QuotedAttr(6, "name", S_Main)>>,
      <<TypedAttr(6, "exported", HexTrue)>>,
      <<QuotedAttr(6, "permission", S_Perm)>>,
      <<QuotedAttr(6, "permission", EmptyString)>>,
      FilterBlock(ActionMainLines \o CategoryLauncherLines),
      FilterBlock(ActionMainLines),
      FilterBlock(CategoryLauncherLines) }

AnalyzeInputs == {text \o <<BlankLine>> : text \in Inputs(AnalyzeBlocks, MaxAnalyzeBlocks)}

InitAnalyze == InitWith(AnalyzeInputs, {<<>>, <<BadgingTargetSdk(Dec33)>>})

SpecAnalyze == InitAnalyze /\ [][Next]_vars

\* the end-to-end scenario of the specification, after the namespace line
\* a dump starts with
EndToEndInput ==
    <<ElementLineOf(0, "manifest"),
      QuotedAttr(2, "package", S_ComTestApp),
      ElementLineOf(2, "application"),
      TypedAttr(4, "debuggable", HexTrue),
      ElementLineOf(4, "activity"),
      QuotedAttr(6, "name", S_Main),
      TypedAttr(6, "exported", HexTrue)>>

\* the lines of s at the positions in keep, in order
RECURSIVE Pick(_, _, _)
Pick(s, keep, k) ==
    IF k > Len(s) THEN <<>>
    ELSE (IF k \in keep THEN <<s[k]>> ELSE <<>>) \o Pick(s, keep, k + 1)

\* the scenario with any of its lines left out, with or without the
\* namespace line in front
EndToEndInputs ==
    {Pick(<<NamespaceLine>> \o EndToEndInput, keep, 1) :
        keep \in SUBSET (1..(Len(EndToEndInput) + 1))}

InitEndToEnd == InitWith(EndToEndInputs, {<<>>, <<BadgingTargetSdk(Dec33)>>})

SpecEndToEnd == InitEndToEnd /\ [][Next]_vars

\* ------------------------------------------------------------------------
\* Properties of the line pass
\* ------------------------------------------------------------------------
ComponentTags == {"activity", "activity-alias", "service", "receiver", "provider"}
FilterOwnerTags == {"activity", "activity-alias", "receiver"}
KindOf(tag) == IF tag = "activity-alias" THEN "activity" ELSE tag
ListOf(res, kind) ==
    CASE kind = "activity" -> res.activities
      [] kind = "service" -> res.services
      [] kind = "receiver" -> res.receivers
      [] kind = "provider" -> res.providers
Lists(res) == <<res.activities, res.services, res.receivers, res.providers>>
Last(s) == s[Len(s)]

IsElement(l) == l.marker = "E" /\ l.name # ""
\* an attribute line read off the text of the line: a name, and a quoted
\* value or a value that starts with a number
IsAttr(l) ==
    /\ l.marker = "A"
    /\ l.name # ""
    /\ \/ l.quoted
       \/ /\ l.text # <<>>
          /\ \/ IsDecDigit(l.text[1])
             \/ l.text[1] = "-" /\ Len(l.text) >= 2 /\ IsDecDigit(l.text[2])
IsNameAttr(l) == IsAttr(l) /\ l.name = "name"
\* the name a name attribute line gives
NameGiven(l) == IF l.quoted THEN l.text ELSE <<>>

\* C1: an activity or receiver line, an intent-filter line one level deeper,
\* two attribute lines that leave the component with a non-empty name, then a
\* component line at the depth of the first: once that line is read the first
\* component is the last entry of its list with exactly one intent-filter, and
\* the open component is fresh.
ScopePatternAt(k) ==
    /\ k + 4 <= Len(lines)
    /\ IsElement(lines[k]) /\ lines[k].name \in FilterOwnerTags
    /\ IsElement(lines[k + 1]) /\ lines[k + 1].name = "intent-filter"
    /\ Depth(lines[k + 1]) = Depth(lines[k]) + 1
    /\ IsAttr(lines[k + 2]) /\ IsAttr(lines[k + 3])
    /\ IF IsNameAttr(lines[k + 3]) THEN NameGiven(lines[k + 3]) # <<>>
       ELSE IsNameAttr(lines[k + 2]) /\ NameGiven(lines[k + 2]) # <<>>
    /\ IsElement(lines[k + 4]) /\ lines[k + 4].name \in ComponentTags
    /\ Depth(lines[k + 4]) = Depth(lines[k])
ScopeClosureKeepsFilter ==
    \A k \in 1..Len(lines) :
        ScopePatternAt(k) /\ pc = "loop" /\ i = k + 5 =>
            LET list == ListOf(result, KindOf(lines[k].name))
            IN /\ list # <<>>
               /\ Len(Last(list).intentFilters) = 1
               /\ currentComponent # Null
               /\ currentComponent.name = <<>>
               /\ (lines[k + 4].name \in FilterOwnerTags =>
                       currentComponent.intentFilters = <<>>)

\* C2: after the end-of-input flush the four component lists equal those of
\* the same input followed by one more element line at depth 0 whose tag is
\* neither a component tag nor intent-filter.
NeutralTags == {"manifest", "uses-sdk"}
EndOfInputLikeNewLine ==
    pc = "badging" =>
        \A tag \in NeutralTags :
            Lists(result) = Lists(ParseToFlush(Append(lines, ElementLineOf(0, tag))).result)

\* the line at which the component opened at line k stops being the open
\* component: the next element line at its depth or above, the next component
\* line, or the end of input
ScopeEnd(k) ==
    LET ends == {j \in (k + 1)..Len(lines) :
                    /\ IsElement(lines[j])
                    /\ \/ Depth(lines[j]) <= Depth(lines[k])
                       \/ lines[j].name \in ComponentTags}
    IN IF ends = {} THEN Len(lines) + 1 ELSE CHOOSE j \in ends : \A m \in ends : j <= m
\* the name the component opened at line k holds when it stops being open
NameHeld(k) ==
    LET names == {j \in (k + 1)..(ScopeEnd(k) - 1) : IsNameAttr(lines[j])}
    IN IF names = {} THEN <<>>
       ELSE NameGiven(lines[CHOOSE j \in names : \A m \in names : j >= m])
Indices == [k \in 1..Len(lines) |-> k]
ExpectedNames(kind) ==
    LET opens == SelectSeq(Indices, LAMBDA k : /\ IsElement(lines[k])
                                                /\ lines[k].name \in ComponentTags
                                                /\ KindOf(lines[k].name) = kind
                                                /\ NameHeld(k) # <<>>)
    IN [n \in DOMAIN opens |-> NameHeld(opens[n])]
NamesOf(list) == [n \in DOMAIN list |-> list[n].name]

\* C3: after the flush each list holds, in the order of their element lines,
\* exactly the components of its kind that held a non-empty name when they
\* stopped being the open component.
ListsHoldNamedComponents ==
    pc = "badging" =>
        \A kind \in {"activity", "service", "receiver", "provider"} :
            NamesOf(ListOf(result, kind)) = ExpectedNames(kind)

\* the open component stops being the open component in the next step: an
\* element line at its depth or above closes it, a component line replaces
\* it, or the input ends
ComponentStops ==
    /\ pc = "loop"
    /\ currentComponent # Null
    /\ \/ i > Len(lines)
       \/ /\ i <= Len(lines)
          /\ IsElement(lines[i])
          /\ \/ componentDepth >= Depth(lines[i])
             \/ lines[i].name \in ComponentTags

\* C9: a component that stops being the open component while its name is
\* the empty string is appended to no list, and the step leaves the whole
\* document as it was and the run goes on.
UnnamedNeverAppended ==
    [][ComponentStops /\ currentComponent.name = <<>> =>
           result' = result /\ pc' \in {"loop", "badging"}]_vars

\* an unnamed activity closed by an element line, an unnamed component open
\* at end of input, and a named activity in its list
UnnamedDropped ==
    /\ pc = "badging"
    /\ \E k \in 1..Len(lines) :
           /\ IsElement(lines[k]) /\ lines[k].name \in ComponentTags
           /\ NameHeld(k) = <<>> /\ ScopeEnd(k) <= Len(lines)
    /\ \E k \in 1..Len(lines) :
           /\ IsElement(lines[k]) /\ lines[k].name \in ComponentTags
           /\ NameHeld(k) = <<>> /\ ScopeEnd(k) = Len(lines) + 1
    /\ Len(result.activities) = 1
    /\ result.services = <<>>

\* a line that is neither an element line nor an attribute line
IsUnmatched(l) == ~IsElement(l) /\ ~IsAttr(l)

\* the fields of a document nothing was parsed into
IsDefaultDocument(res) ==
    /\ res.package = <<>> /\ res.versionCode = <<>> /\ res.versionName = <<>>
    /\ res.minSdk = <<>> /\ res.targetSdk = <<>>
    /\ res.permissions = <<>> /\ res.activities = <<>> /\ res.services = <<>>
    /\ res.receivers = <<>> /\ res.providers = <<>>
    /\ res.debuggable = FALSE /\ res.allowBackup = TRUE

\* C10: reading a line that matches neither pattern leaves the open-scope
\* state and the document unchanged; so an input of such lines only, with no
\* badging text, ends with every field at its default and every list empty.
UnmatchedLineChangesNothing ==
    [][/\ (pc = "loop" /\ i <= Len(lines) /\ IsUnmatched(lines[i]) =>
               UNCHANGED <<result, locals>> /\ pc' = "loop")
       /\ ((\A k \in 1..Len(lines) : IsUnmatched(lines[k])) /\ badging = <<>> =>
               IsDefaultDocument(result'))]_vars

\* a resource-reference attribute line was read while a named component and
\* an intent-filter were open
UnmatchedLineRead ==
    /\ pc = "loop" /\ i > 1
    /\ lines[i - 1] = ReferenceAttr(6, "name")
    /\ currentComponent # Null
    /\ currentComponent.name = S_Main
    /\ inIntentFilter

\* the element a line lies directly under: the tag of the last element line
\* before line k
EnclosingElement(k) ==
    LET elems == {j \in 1..(k - 1) : IsElement(lines[j])}
    IN IF elems = {} THEN "" ELSE lines[CHOOSE j \in elems : \A m \in elems : j >= m].name

\* the lines read so far that set the given application flag
FlagLinesRead(flag) ==
    {k \in 1..(i - 1) : /\ IsAttr(lines[k]) /\ lines[k].name = flag
                        /\ EnclosingElement(k) = "application"}

\* the boolean-from-hex reading of an attribute line
LiteralIsTrue(l) == ~l.quoted /\ l.text \in {HexTrue, MinusOne}

\* C5: allowBackup is true after an allowBackup line directly under the
\* application element iff its literal is 0xffffffff or -1, false for any
\* other value, and stays at its default true without such a line.
AllowBackupIsBooleanFromHex ==
    LET ks == FlagLinesRead("allowBackup")
    IN result.allowBackup =
           IF ks = {} THEN TRUE
           ELSE LiteralIsTrue(lines[CHOOSE k \in ks : \A m \in ks : k >= m])

\* ------------------------------------------------------------------------
\* Properties of the phases after the line pass
\* ------------------------------------------------------------------------
\* every component of the list that carries an intent-filter is exported
FilterOwnersExported(list) ==
    \A k \in DOMAIN list : Len(list[k].intentFilters) > 0 => list[k].exported = TRUE

\* between two versions of a list only exported flags differ, none goes
\* from true to false, and a component without intent-filters is unchanged
OnlyRaisesExported(before, after) ==
    /\ Len(after) = Len(before)
    /\ \A k \in DOMAIN before :
           /\ SetField(after[k], "exported", before[k].exported) = before[k]
           /\ (before[k].exported => after[k].exported)
           /\ (before[k].intentFilters = <<>> => after[k] = before[k])

\* C4: the inference step, for a targetSdk that parses to an integer: below
\* 31 every activity and receiver with an intent-filter ends exported, from
\* 31 on nothing changes; services, providers and components without
\* intent-filters never change, and no flag goes from true to false.
ExportInference ==
    [][pc = "infer" =>
           LET t == ParseInt(result.targetSdk, 0)
           IN /\ (~t.nan /\ t.n < 31 =>
                      /\ FilterOwnersExported(result'.activities)
                      /\ FilterOwnersExported(result'.receivers))
              /\ (~t.nan /\ t.n >= 31 => result' = result)
              /\ OnlyRaisesExported(result.activities, result'.activities)
              /\ OnlyRaisesExported(result.receivers, result'.receivers)
              /\ result'.services = result.services
              /\ result'.providers = result.providers]_vars

\* targetSdk "30": the activity whose exported attribute was 0x0 and which
\* has an intent-filter is exported after the inference, next to a service
\* that is not
ExplicitFalseBecameExported ==
    /\ pc = "analyze"
    /\ result.targetSdk = Dec30
    /\ lines = <<ElementLineOf(4, "activity"), QuotedAttr(6, "name", S_Main),
                 TypedAttr(6, "exported", HexFalse), ElementLineOf(6, "intent-filter"),
                 BlankLine>>
    /\ Len(result.activities) = 1
    /\ result.activities[1].exported = TRUE
    /\ Len(result.activities[1].intentFilters) = 1

\* the lines give no targetSdkVersion under uses-sdk
NoTargetSdkInLines ==
    \A k \in 1..Len(lines) :
        ~(IsAttr(lines[k]) /\ lines[k].name = "targetSdkVersion"
          /\ EnclosingElement(k) = "uses-sdk")

\* the activity findings name exactly the activities that are exported
\* without permission and without a filter carrying any action
FindingsFollowFlags(res) ==
    \A k \in DOMAIN res.activities :
        LET a == res.activities[k]
        IN a.exported /\ "permission" \notin DOMAIN a
           /\ (\A f \in DOMAIN a.intentFilters : "action" \notin DOMAIN a.intentFilters[f])
           => \E n \in DOMAIN res.securityIssues :
                  /\ "component" \in DOMAIN res.securityIssues[n]
                  /\ res.securityIssues[n].component = a.name
                  /\ res.securityIssues[n].severity = "high"

\* C8: the phases follow one another as line pass with flush, back-fill,
\* export inference, analysis, each once; the inference reads the targetSdk
\* the back-fill left (a value given only by the badging text decides it), and
\* the analysis reads the inferred flags.
PhasesInOrder ==
    [][/\ (pc' # pc =>
               <<pc, pc'>> \in {<<"loop", "badging">>, <<"badging", "infer">>,
                                <<"infer", "analyze">>, <<"analyze", "done">>})
       /\ (pc = "loop" /\ pc' = "badging" => i > Len(lines))
       /\ (pc = "infer" /\ NoTargetSdkInLines /\ badging = <<BadgingTargetSdk(Dec31)>> =>
               result.targetSdk = Dec31 /\ result' = result)
       /\ (pc = "infer" /\ NoTargetSdkInLines /\ badging = <<BadgingTargetSdk(Dec30)>> =>
               /\ result.targetSdk = Dec30
               /\ FilterOwnersExported(result'.activities)
               /\ FilterOwnersExported(result'.receivers))
       /\ (pc = "analyze" =>
               /\ result'.activities = result.activities
               /\ FindingsFollowFlags(result'))]_vars

\* badging gives targetSdkVersion:'31' and the lines none: the activity with
\* an intent-filter stays unexported through inference and analysis, with no
\* finding naming it
BadgingDecidedInference ==
    /\ pc = "done"
    /\ badging = <<BadgingTargetSdk(Dec31)>>
    /\ result.targetSdk = Dec31
    /\ Len(result.activities) = 1
    /\ Len(result.activities[1].intentFilters) = 1
    /\ result.activities[1].exported = FALSE
    /\ \A n \in DOMAIN result.securityIssues : "component" \notin DOMAIN result.securityIssues[n]

\* ------------------------------------------------------------------------
\* Properties of the analysis
\* ------------------------------------------------------------------------
\* the activity has no permission, or an empty one
NoPermission(a) == "permission" \notin DOMAIN a \/ a.permission \in {<<>>, Undefined}

\* one intent-filter of the activity has action MAIN and category LAUNCHER
HasLauncherFilter(a) ==
    \E k \in DOMAIN a.intentFilters :
        LET f == a.intentFilters[k]
        IN /\ "action" \in DOMAIN f /\ f.action = S_ActionMain
           /\ "category" \in DOMAIN f /\ f.category = S_CategoryLauncher

\* the findings about exported activities
IsActivityFinding(issue) ==
    /\ "component" \in DOMAIN issue
    /\ issue.issue = <<"Exported activity without permission protection.">>

\* C6: analyze emits one high finding for each exported activity without
\* permission that has no launcher filter, naming it, and no other finding
\* about an activity: per name, as many findings as such activities.
ActivityFindings ==
    pc = "done" =>
        /\ \A n \in DOMAIN result.securityIssues :
               IsActivityFinding(result.securityIssues[n]) =>
                   /\ result.securityIssues[n].severity = "high"
                   /\ \E k \in DOMAIN result.activities :
                          result.activities[k].name = result.securityIssues[n].component
        /\ \A k \in DOMAIN result.activities :
               LET name == result.activities[k].name
               IN Cardinality({n \in DOMAIN result.securityIssues :
                                  /\ IsActivityFinding(result.securityIssues[n])
                                  /\ result.securityIssues[n].component = name})
                  = Cardinality({m \in DOMAIN result.activities :
                                  LET a == result.activities[m]
                                  IN /\ a.name = name /\ a.exported /\ NoPermission(a)
                                     /\ ~HasLauncherFilter(a)})

\* two exported activities without permission were analyzed, the second
\* with a launcher filter, and the one finding names the first
LauncherExempted ==
    /\ pc = "done"
    /\ Len(result.activities) = 2
    /\ result.activities[1].exported /\ NoPermission(result.activities[1])
    /\ ~HasLauncherFilter(result.activities[1])
    /\ result.activities[2].exported /\ NoPermission(result.activities[2])
    /\ HasLauncherFilter(result.activities[2])
    /\ Cardinality({n \in DOMAIN result.securityIssues :
                       IsActivityFinding(result.securityIssues[n])}) = 1

\* C7: the seven-line scenario without badging text ends with package
\* com.test.app, the one activity .Main exported and without permission, and
\* the three findings high debuggable, medium allowBackup, high exported
\* activity .Main, in this order.
EndToEndScenario ==
    pc = "done" /\ lines = EndToEndInput /\ badging = <<>> =>
        /\ result.package = S_ComTestApp
        /\ result.activities = <<[name |-> S_Main, exported |-> TRUE, intentFilters |-> <<>>]>>
        /\ result.securityIssues =
               <<[severity |-> "high", issue |-> <<"Application is debuggable.">>],
                 [severity |-> "medium", issue |-> <<"Application allows backup.">>],
                 [severity |-> "high",
                  issue |-> <<"Exported activity without permission protection.">>,
                  component |-> S_Main]>>

\* the scenario has been parsed and analyzed
EndToEndDone ==
    /\ pc = "done" /\ lines = EndToEndInput /\ badging = <<>>
    /\ Len(result.securityIssues) = 3

\* ------------------------------------------------------------------------
\* Boolean attributes: debuggable and exported
\* ------------------------------------------------------------------------
MaxBoolLines == 3

HexTrueUpper == <<"0", "x", "F", "F", "F", "F", "F", "F", "F", "F">>

\* the value literals of a boolean attribute line
BoolValues == {HexTrue, MinusOne, HexFalse, HexOne, HexTrueUpper}

\* debuggable and exported lines with each literal and with a quoted value,
\* under the application element and under an activity
BoolLines ==
    { <<ElementLineOf(2, "application")>>,
      <<ElementLineOf(4, "activity")>>,
      <<NamespaceLine>> }
    \cup {<<TypedAttr(4, "debuggable", v)>> : v \in BoolValues}
    \cup {<<QuotedAttr(4, "debuggable", S_True)>>}
    \cup {<<TypedAttr(6, "exported", v)>> : v \in BoolValues}
    \cup {<<QuotedAttr(6, "exported", S_True)>>}

InitBoolean == InitWith(Inputs(BoolLines, MaxBoolLines), {<<>>})

SpecBoolean == InitBoolean /\ [][Next]_vars

\* the element line that opened the open component: the last component line
\* read
OpenLine ==
    LET cs == {k \in 1..(i - 1) : IsElement(lines[k]) /\ lines[k].name \in ComponentTags}
    IN CHOOSE k \in cs : \A m \in cs : k >= m

\* the attribute lines of the given name read since the open component
\* was opened
ComponentLinesRead(attr) ==
    {k \in (OpenLine + 1)..(i - 1) : IsAttr(lines[k]) /\ lines[k].name = attr}

\* the boolean the last line of a set gives, false without a line
BooleanGiven(ks) ==
    ks # {} /\ LiteralIsTrue(lines[CHOOSE k \in ks : \A m \in ks : k >= m])

\* C11: during the line pass and after its flush, debuggable is true iff
\* the last debuggable line directly under the application element has the
\* literal 0xffffffff or -1, and the exported field of the open component is
\* true iff the last exported line read since it was opened has one of these
\* literals; any other matched value gives false, and so does no line.
BooleanFlagsFollowLiteral ==
    pc \in {"loop", "badging"} =>
        /\ result.debuggable = BooleanGiven(FlagLinesRead("debuggable"))
        /\ (currentComponent # Null =>
                currentComponent.exported = BooleanGiven(ComponentLinesRead("exported")))

\* an activity whose exported line reads -1 is open at the end of the input,
\* after a debuggable line outside the application element that left the
\* flag false
ExportedMinusOneRead ==
    /\ pc = "badging"
    /\ lines = <<ElementLineOf(4, "activity"), TypedAttr(4, "debuggable", HexTrue),
                 TypedAttr(6, "exported", MinusOne)>>
    /\ currentComponent.exported = TRUE
    /\ result.debuggable = FALSE

\* ------------------------------------------------------------------------
\* Numeric attributes: versionCode, minSdkVersion, targetSdkVersion
\* ------------------------------------------------------------------------
MaxNumericLines == 4

Hex15 == <<"0", "x", "1", "5">>
Hex1E == <<"0", "x", "1", "E">>
Dec7 == <<"7">>
Dec23 == <<"2", "3">>

\* the three attributes as hexadecimal literals and as quoted strings, under
\* the manifest, uses-sdk and application elements
NumericLines ==
    { <<NamespaceLine, ElementLineOf(0, "manifest")>>,
      <<ElementLineOf(2, "uses-sdk")>>,
      <<ElementLineOf(2, "application")>>,
      <<TypedAttr(2, "versionCode", HexOne)>>,
      <<QuotedAttr(2, "versionCode", Dec7)>>,
      <<TypedAttr(4, "minSdkVersion", Hex15)>>,
      <<QuotedAttr(4, "minSdkVersion", Dec23)>>,
      <<TypedAttr(4, "targetSdkVersion", Hex1E)>>,
      <<QuotedAttr(4, "targetSdkVersion", Dec33)>> }

InitNumeric == InitWith(Inputs(NumericLines, MaxNumericLines), {<<>>})

SpecNumeric == InitNumeric /\ [][Next]_vars

\* the base-10 string of a hexadecimal literal of the inputs
DecimalOf(literal) ==
    CASE literal = HexOne -> <<"1">>
      [] literal = Hex15 -> <<"2", "1">>
      [] literal = Hex1E -> <<"3", "0">>

\* what a numeric attribute line stores: the quoted string as it is, the
\* hexadecimal literal in base 10
NumberGiven(l) == IF l.quoted THEN l.text ELSE DecimalOf(l.text)

\* the field after line k is read: the number the line gives when the line
\* has the attribute name and lies under the element, else the field as it was
FieldAfter(k, field, attr, element) ==
    IF lines[k].name = attr /\ EnclosingElement(k) = element
    THEN NumberGiven(lines[k]) ELSE field

\* C12: reading an attribute line stores versionCode under manifest and
\* minSdkVersion / targetSdkVersion under uses-sdk, a 0x literal as the
\* base-10 string of its value and a quoted string verbatim; under any other
\* element the three fields keep their values.
NumericAttributesStored ==
    [][pc = "loop" /\ i <= Len(lines) /\ IsAttr(lines[i]) =>
           /\ result'.versionCode = FieldAfter(i, result.versionCode, "versionCode", "manifest")
           /\ result'.minSdk = FieldAfter(i, result.minSdk, "minSdkVersion", "uses-sdk")
           /\ result'.targetSdk =
                  FieldAfter(i, result.targetSdk, "targetSdkVersion", "uses-sdk")]_vars

\* minSdkVersion 0x15 under uses-sdk was stored as "21" and a later
\* minSdkVersion line under application left it
HexStoredAsDecimal ==
    /\ pc = "loop" /\ i = 5
    /\ lines = <<ElementLineOf(2, "uses-sdk"), TypedAttr(4, "minSdkVersion", Hex15),
                 ElementLineOf(2, "application"), QuotedAttr(4, "minSdkVersion", Dec23)>>
    /\ result.minSdk = <<"2", "1">>

\* ------------------------------------------------------------------------
\* The back-fill from the badging text
\* ------------------------------------------------------------------------
MaxBadgingEntries == 2

S_OrgOther == <<"o", "r", "g", ".", "o", "t", "h", "e", "r">>
S_OneZero == <<"1", ".", "0">>
S_TwoZero == <<"2", ".", "0">>
S_App == <<"A", "p", "p">>
S_L == <<"L">>
Dec2 == <<"2">>
Dec19 == <<"1", "9">>
S_Camera == AndroidPermission(<<"C", "A", "M", "E", "R", "A">>)

\* package: name='<name>' versionCode='<versionCode>' versionName='<versionName>'
BadgingPackage(name, versionCode, versionName) ==
    [key |-> "package", name |-> name, versionCode |-> versionCode,
     versionName |-> versionName, value |-> <<>>]

\* <key>:'<value>'
BadgingEntry(key, value) ==
    [key |-> key, name |-> <<>>, versionCode |-> <<>>, versionName |-> <<>>,
     value |-> value]

\* the lines of a badging text: a package line, one with an empty
\* versionName, sdkVersion with a number and with a letter, targetSdkVersion
\* and a line no pattern reads
BadgingEntries ==
    { BadgingPackage(S_OrgOther, Dec2, S_TwoZero),
      BadgingPackage(S_OrgOther, Dec2, <<>>),
      BadgingEntry("sdkVersion", Dec19),
      BadgingEntry("sdkVersion", S_L),
      BadgingTargetSdk(Dec33),
      BadgingEntry("application-label", S_App) }

BadgingTexts == SeqsUpTo(BadgingEntries, MaxBadgingEntries)

\* a dump with a permission, the debuggable flag and an activity, and with
\* the five back-filled attributes
BadgingDocument ==
    <<NamespaceLine,
      ElementLineOf(0, "manifest"),
      QuotedAttr(2, "package", S_ComTestApp),
      TypedAttr(2, "versionCode", HexOne),
      QuotedAttr(2, "versionName", S_OneZero),
      ElementLineOf(2, "uses-sdk"),
      TypedAttr(4, "minSdkVersion", Hex15),
      TypedAttr(4, "targetSdkVersion", Hex1E),
      ElementLineOf(2, "uses-permission"),
      QuotedAttr(4, "name", S_Camera),
      ElementLineOf(2, "application"),
      TypedAttr(4, "debuggable", HexTrue),
      ElementLineOf(4, "activity"),
      QuotedAttr(6, "name", S_Main)>>

\* the positions of the five back-filled attributes in the dump
BackfilledPositions == {3, 4, 5, 7, 8}

\* the dump with any of the five attributes left out
BadgingDocuments ==
    {Pick(BadgingDocument, (1..Len(BadgingDocument)) \ out, 1) :
        out \in SUBSET BackfilledPositions}

InitBadging == InitWith(BadgingDocuments, BadgingTexts)

SpecBadging == InitBadging /\ [][Next]_vars

BackfilledFields == {"package", "versionCode", "versionName", "minSdk", "targetSdk"}

\* a line of the badging text one of the extraction patterns reads
EntryMatches(entry) ==
    \/ /\ entry.key = "package"
       /\ entry.name # <<>> /\ entry.versionCode # <<>> /\ entry.versionName # <<>>
    \/ /\ entry.key \in {"sdkVersion", "targetSdkVersion"}
       /\ entry.value # <<>>
       /\ \A k \in DOMAIN entry.value : IsDecDigit(entry.value[k])

\* C13: the back-fill step leaves every field that is non-empty before it,
\* never changes a field other than package, versionCode, versionName, minSdk
\* and targetSdk, and leaves the whole document unchanged when the badging
\* text is empty or none of its lines matches a pattern.
BadgingOnlyFillsEmpty ==
    [][pc = "badging" =>
           /\ \A f \in BackfilledFields : result[f] # <<>> => result'[f] = result[f]
           /\ \A f \in (DOMAIN result) \ BackfilledFields : result'[f] = result[f]
           /\ ((\A k \in DOMAIN badging : ~EntryMatches(badging[k])) => result' = result)
           /\ pc' = "infer"]_vars

\* the dump gave package and versionName but neither versionCode nor minSdk:
\* after the back-fill package and versionName are those of the dump,
\* versionCode and minSdk those of the badging text
BackfillKeptAndFilled ==
    /\ pc = "infer"
    /\ badging = <<BadgingPackage(S_OrgOther, Dec2, S_TwoZero), BadgingEntry("sdkVersion", Dec19)>>
    /\ lines = Pick(BadgingDocument, (1..Len(BadgingDocument)) \ {4, 7}, 1)
    /\ result.package = S_ComTestApp
    /\ result.versionName = S_OneZero
    /\ result.versionCode = Dec2
    /\ result.minSdk = Dec19
    /\ result.targetSdk = Dec30
    /\ Len(result.permissions) = 1 /\ Len(result.activities) = 1 /\ result.debuggable

\* ------------------------------------------------------------------------
\* The order of the findings
\* ------------------------------------------------------------------------
MaxOrderBlocks == 3

Hex13 == <<"0", "x", "1", "3">>
Hex1A == <<"0", "x", "1", "a">>
S_ReadContacts == AndroidPermission(<<"R", "E", "A", "D", "_", "C", "O", "N", "T", "A", "C", "T", "S">>)

\* uses-sdk with minSdkVersion 19 and targetSdkVersion 26
LowSdkBlock ==
    <<ElementLineOf(2, "uses-sdk"), TypedAttr(4, "minSdkVersion", Hex13),
      TypedAttr(4, "targetSdkVersion", Hex1A)>>

\* one uses-permission element
PermissionBlock(name) == <<ElementLineOf(2, "uses-permission"), QuotedAttr(4, "name", name)>>

\* six uses-permission elements with dangerous permissions
SixDangerousBlock ==
    PermissionBlock(S_Camera) \o PermissionBlock(S_ReadContacts) \o PermissionBlock(S_Camera)
    \o PermissionBlock(S_ReadContacts) \o PermissionBlock(S_Camera)
    \o PermissionBlock(S_ReadContacts)

\* the application element with debuggable set
DebuggableBlock == <<ElementLineOf(2, "application"), TypedAttr(4, "debuggable", HexTrue)>>

\* an exported component of the given tag and name
ExportedBlock(tag, name) ==
    <<ElementLineOf(4, tag), QuotedAttr(6, "name", name), TypedAttr(6, "exported", HexTrue)>>

\* an intent-filter with the given action, closed by a meta-data element of
\* the component
ClosedFilterBlock(action) ==
    <<ElementLineOf(6, "intent-filter"), ElementLineOf(8, "action"),
      QuotedAttr(10, "name", action), ElementLineOf(6, "meta-data")>>

\* an exported receiver with an intent-filter for a custom action
CustomReceiverBlock == ExportedBlock("receiver", S_Main) \o ClosedFilterBlock(S_ActionCustom)

\* blocks that each raise a finding of one rule, components twice
OrderBlocks ==
    { LowSdkBlock, SixDangerousBlock, DebuggableBlock,
      ExportedBlock("activity", S_Main), ExportedBlock("activity", S_Other),
      ExportedBlock("service", S_Main), ExportedBlock("service", S_Other),
      CustomReceiverBlock,
      ExportedBlock("provider", S_Main) }

OrderInputs == {text \o <<BlankLine>> : text \in Inputs(OrderBlocks, MaxOrderBlocks)}

InitOrder == InitWith(OrderInputs, {<<>>})

SpecOrder == InitOrder /\ [][Next]_vars

\* the rule a finding belongs to, read off its text
RuleOf(issue) ==
    CASE issue.issue[1] = "Application is debuggable." -> 1
      [] issue.issue[1] = "Application allows backup." -> 2
      [] issue.issue[1] = "Exported activity without permission protection." -> 3
      [] issue.issue[1] = "Exported service without permission protection." -> 4
      [] issue.issue[1] = "Exported broadcast receiver with custom intent-filter." -> 5
      [] issue.issue[1] = "Exported content provider without permission protection." -> 6
      [] issue.issue[1] = "Application requests ${n} dangerous permissions." -> 7
      [] issue.issue[1] = "Target SDK (${n}) is below 28." -> 8
      [] issue.issue[1] = "Minimum SDK (${n}) is below 21 (Lollipop)." -> 9

\* a is b with some entries left out
RECURSIVE IsSubsequence(_, _)
IsSubsequence(a, b) ==
    IF a = <<>> THEN TRUE
    ELSE IF b = <<>> THEN FALSE
    ELSE IF Head(a) = Head(b) THEN IsSubsequence(Tail(a), Tail(b))
    ELSE IsSubsequence(a, Tail(b))

\* the components the findings of a rule name, in the order of the findings
NamedBy(issues, rule) ==
    LET hits == SelectSeq(issues, LAMBDA f : RuleOf(f) = rule)
    IN [n \in DOMAIN hits |-> hits[n].component]

\* C14: in the list analyze returns no finding of a later rule precedes one
\* of an earlier rule (debuggable, allowBackup, activities, services,
\* receivers, providers, dangerous permissions, targetSdk, minSdk), each
\* manifest-wide rule has at most one finding, and the findings of a component
\* rule name their components in the order of the component list.
FindingsInRuleOrder ==
    pc = "done" =>
        LET issues == result.securityIssues
        IN /\ \A m, n \in DOMAIN issues : m < n => RuleOf(issues[m]) <= RuleOf(issues[n])
           /\ \A rule \in {1, 2, 7, 8, 9} :
                  Cardinality({n \in DOMAIN issues : RuleOf(issues[n]) = rule}) <= 1
           /\ IsSubsequence(NamedBy(issues, 3), NamesOf(result.activities))
           /\ IsSubsequence(NamedBy(issues, 4), NamesOf(result.services))
           /\ IsSubsequence(NamedBy(issues, 5), NamesOf(result.receivers))
           /\ IsSubsequence(NamedBy(issues, 6), NamesOf(result.providers))

\* the dump lists uses-sdk, then six dangerous permissions, then an exported
\* provider: the provider finding stands before the three manifest-wide ones
ProviderFindingBeforeCounts ==
    /\ pc = "done"
    /\ lines = LowSdkBlock \o SixDangerousBlock \o ExportedBlock("provider", S_Main)
               \o <<BlankLine>>
    /\ Len(result.securityIssues) = 5
    /\ RuleOf(result.securityIssues[2]) = 6
    /\ RuleOf(result.securityIssues[3]) = 7
    /\ RuleOf(result.securityIssues[5]) = 9

\* C15: the analysis step changes no field of the document but
\* securityIssues, which it sets to the list analyze returns for the document
\* as it was; analyze applied again to the document that now stores this list
\* returns the same list, equal in length, order and content.
AnalyzeIsPure ==
    [][pc = "analyze" =>
           /\ \A f \in (DOMAIN result) \ {"securityIssues"} : result'[f] = result[f]
           /\ result'.securityIssues = analyzeSecurityIssues(result)
           /\ analyzeSecurityIssues(result') = result'.securityIssues
           /\ Len(analyzeSecurityIssues(result')) = Len(result'.securityIssues)]_vars

\* a document with four findings, two of them naming components, was
\* analyzed and stores the list a second analysis returns
AnalyzedAgain ==
    /\ pc = "done"
    /\ lines = DebuggableBlock \o ExportedBlock("service", S_Main) \o CustomReceiverBlock
               \o <<BlankLine>>
    /\ Len(result.securityIssues) = 4
    /\ NamedBy(result.securityIssues, 4) = <<S_Main>>
    /\ NamedBy(result.securityIssues, 5) = <<S_ActionCustom>>
    /\ analyzeSecurityIssues(result) = result.securityIssues

\* ------------------------------------------------------------------------
\* Receiver findings
\* ------------------------------------------------------------------------
MaxReceiverBlocks == 4

\* receivers with and without exported, with intent-filters for a system
\* action, a custom action and no action
ReceiverBlocks ==
    { <<ElementLineOf(4, "receiver"), QuotedAttr(6, "name", S_Main)>>,
      <<TypedAttr(6, "exported", HexTrue)>>,
      ClosedFilterBlock(S_ActionBoot),
      ClosedFilterBlock(S_ActionCustom),
      <<ElementLineOf(6, "intent-filter"), ElementLineOf(6, "meta-data")>> }

ReceiverInputs ==
    {text \o <<BlankLine>> : text \in Inputs(ReceiverBlocks, MaxReceiverBlocks)}

InitReceivers == InitWith(ReceiverInputs, {<<>>, <<BadgingTargetSdk(Dec33)>>})

SpecReceivers == InitReceivers /\ [][Next]_vars

\* one intent-filter of the receiver has an action that starts with
\* "android.intent."
HasSystemAction(r) ==
    \E k \in DOMAIN r.intentFilters :
        LET f == r.intentFilters[k]
        IN /\ "action" \in DOMAIN f /\ f.action # Undefined
           /\ Len(f.action) >= 15
           /\ SubSeq(f.action, 1, 15) = <<"a", "n", "d", "r", "o", "i", "d", ".",
                                          "i", "n", "t", "e", "n", "t", ".">>

\* the findings about exported receivers
IsReceiverFinding(issue) ==
    /\ "component" \in DOMAIN issue
    /\ issue.issue = <<"Exported broadcast receiver with custom intent-filter.">>

\* C16: analyze emits one medium finding for each receiver that is exported,
\* has at least one intent-filter and no filter whose action starts with
\* "android.intent.", naming it, and no other finding about a receiver: per
\* name, as many findings as such receivers.
ReceiverFindings ==
    pc = "done" =>
        /\ \A n \in DOMAIN result.securityIssues :
               IsReceiverFinding(result.securityIssues[n]) =>
                   /\ result.securityIssues[n].severity = "medium"
                   /\ \E k \in DOMAIN result.receivers :
                          result.receivers[k].name = result.securityIssues[n].component
        /\ \A k \in DOMAIN result.receivers :
               LET name == result.receivers[k].name
               IN Cardinality({n \in DOMAIN result.securityIssues :
                                  /\ IsReceiverFinding(result.securityIssues[n])
                                  /\ result.securityIssues[n].component = name})
                  = Cardinality({m \in DOMAIN result.receivers :
                                  LET r == result.receivers[m]
                                  IN /\ r.name = name /\ r.exported
                                     /\ r.intentFilters # <<>> /\ ~HasSystemAction(r)})

\* an exported receiver with a filter for a custom action and one for
\* BOOT_COMPLETED was analyzed and no finding names it
SystemBroadcastExempted ==
    /\ pc = "done"
    /\ Len(result.receivers) = 1
    /\ result.receivers[1].exported
    /\ Len(result.receivers[1].intentFilters) = 2
    /\ result.receivers[1].intentFilters =
           <<[action |-> S_ActionCustom], [action |-> S_ActionBoot]>>
    /\ \A n \in DOMAIN result.securityIssues : ~IsReceiverFinding(result.securityIssues[n])

\* ------------------------------------------------------------------------
\* Service and provider findings
\* ------------------------------------------------------------------------
MaxProtectedBlocks == 4

\* exported services and providers, an exported line that takes the flag
\* back, and the three permission attributes, permission also empty
ProtectedBlocks ==
    { ExportedBlock("service", S_Main),
      ExportedBlock("provider", S_Other),
      <<TypedAttr(6, "exported", HexFalse)>>,
      <<QuotedAttr(6, "permission", S_Perm)>>,
      <<QuotedAttr(6, "permission", EmptyString)>>,
      <<QuotedAttr(6, "readPermission", S_Perm)>>,
      <<QuotedAttr(6, "writePermission", S_Perm)>> }

ProtectedInputs ==
    {text \o <<BlankLine>> : text \in Inputs(ProtectedBlocks, MaxProtectedBlocks)}

InitProtected == InitWith(ProtectedInputs, {<<>>})

SpecProtected == InitProtected /\ [][Next]_vars

\* the component has no value, or an empty one, for the attribute
Absent(c, field) == field \notin DOMAIN c \/ c[field] \in {<<>>, Undefined}

IsServiceFinding(issue) ==
    /\ "component" \in DOMAIN issue
    /\ issue.issue = <<"Exported service without permission protection.">>

IsProviderFinding(issue) ==
    /\ "component" \in DOMAIN issue
    /\ issue.issue = <<"Exported content provider without permission protection.">>

\* the service findings that name the component, and the provider findings
FindingsNaming(name, kind) ==
    {n \in DOMAIN result.securityIssues :
        /\ IF kind = "service" THEN IsServiceFinding(result.securityIssues[n])
           ELSE IsProviderFinding(result.securityIssues[n])
        /\ result.securityIssues[n].component = name
        /\ result.securityIssues[n].severity = "high"}

\* C17: analyze emits one high finding for each exported service without
\* permission and for each exported provider without permission,
\* readPermission and writePermission, naming it, and none for any other
\* service or provider: per name, as many findings as such components.
ServiceAndProviderFindings ==
    pc = "done" =>
        /\ \A n \in DOMAIN result.securityIssues :
               LET issue == result.securityIssues[n]
               IN /\ (IsServiceFinding(issue) =>
                          n \in FindingsNaming(issue.component, "service"))
                  /\ (IsProviderFinding(issue) =>
                          n \in FindingsNaming(issue.component, "provider"))
        /\ \A k \in DOMAIN result.services :
               Cardinality(FindingsNaming(result.services[k].name, "service"))
               = Cardinality({m \in DOMAIN result.services :
                                 LET c == result.services[m]
                                 IN /\ c.name = result.services[k].name /\ c.exported
                                    /\ Absent(c, "permission")})
        /\ \A k \in DOMAIN result.providers :
               Cardinality(FindingsNaming(result.providers[k].name, "provider"))
               = Cardinality({m \in DOMAIN result.providers :
                                 LET c == result.providers[m]
                                 IN /\ c.name = result.providers[k].name /\ c.exported
                                    /\ Absent(c, "permission")
                                    /\ Absent(c, "readPermission")
                                    /\ Absent(c, "writePermission")})
        /\ (result.services = <<>> =>
                \A n \in DOMAIN result.securityIssues :
                    ~IsServiceFinding(result.securityIssues[n]))
        /\ (result.providers = <<>> =>
                \A n \in DOMAIN result.securityIssues :
                    ~IsProviderFinding(result.securityIssues[n]))

\* an exported service without permission and an exported provider with
\* only a readPermission were analyzed: one finding names the service, none
\* the provider
ReadPermissionSuppressed ==
    /\ pc = "done"
    /\ lines = ExportedBlock("service", S_Main) \o ExportedBlock("provider", S_Other)
               \o <<QuotedAttr(6, "readPermission", S_Perm), BlankLine>>
    /\ result.providers[1].exported
    /\ result.providers[1].readPermission = S_Perm
    /\ Cardinality(FindingsNaming(S_Main, "service")) = 1
    /\ FindingsNaming(S_Other, "provider") = {}

\* ------------------------------------------------------------------------
\* The dangerous-permission count
\* ------------------------------------------------------------------------
MaxPermissions == 7

S_Internet == AndroidPermission(<<"I", "N", "T", "E", "R", "N", "E", "T">>)

\* uses-permission elements for two dangerous permissions and a normal one
PermissionBlocks ==
    {PermissionBlock(S_Camera), PermissionBlock(S_ReadContacts), PermissionBlock(S_Internet)}

PermissionInputs ==
    {text \o <<BlankLine>> : text \in Inputs(PermissionBlocks, MaxPermissions)}

InitPermissions == InitWith(PermissionInputs, {<<>>})

SpecPermissions == InitPermissions /\ [][Next]_vars

\* the entries of permissions with protectionLevel dangerous
DangerousEntries ==
    {k \in DOMAIN result.permissions : result.permissions[k].protectionLevel = "dangerous"}

\* the findings of the dangerous-permission rule
CountFindings ==
    {n \in DOMAIN result.securityIssues :
        result.securityIssues[n].issue[1] = "Application requests ${n} dangerous permissions."}

\* C18: with more than 5 entries of permissions at protectionLevel
\* dangerous, duplicates counted, analyze emits one medium manifest-wide
\* finding that cites their number; with 5 or fewer it emits none.
DangerousCountFinding ==
    pc = "done" =>
        LET count == Cardinality(DangerousEntries)
        IN IF count > 5
           THEN /\ Cardinality(CountFindings) = 1
                /\ \A n \in CountFindings :
                       /\ result.securityIssues[n].severity = "medium"
                       /\ "component" \notin DOMAIN result.securityIssues[n]
                       /\ count < 10
                       /\ result.securityIssues[n].issue[2] = <<DecDigits[count + 1]>>
           ELSE CountFindings = {}

\* CAMERA six times and INTERNET once: the finding cites 6
SixDangerousCited ==
    /\ pc = "done"
    /\ Len(result.permissions) = 7
    /\ Cardinality(DangerousEntries) = 6
    /\ \A k \in DangerousEntries : result.permissions[k].name = S_Camera
    /\ \E n \in CountFindings : result.securityIssues[n].issue[2] = <<"6">>

\* ------------------------------------------------------------------------
\* The targetSdk and minSdk findings
\* ------------------------------------------------------------------------
MaxSdkLines == 3

Hex14 == <<"0", "x", "1", "4">>
Hex1B == <<"0", "x", "1", "b">>
Dec20 == <<"2", "0">>
Dec21 == <<"2", "1">>
Dec27 == <<"2", "7">>
Dec28 == <<"2", "8">>
S_Abc == <<"a", "b", "c">>
FormFeed20 == <<"\f", "2", "0">>
FormFeed27 == <<"\f", "2", "7">>

\* the values of a targetSdkVersion line: 27, 28, 0, -1, a word, nothing,
\* and 27 after a form feed
TargetSdkLines ==
    {<<QuotedAttr(4, "targetSdkVersion", v)>> :
        v \in {Dec27, Dec28, DecZero, S_Abc, EmptyString, FormFeed27}}
    \cup {<<TypedAttr(4, "targetSdkVersion", v)>> : v \in {Hex1B, MinusOne}}

\* the values of a minSdkVersion line: 20, 21, 0, -1, a word, and 20 after
\* a form feed
MinSdkLines ==
    {<<QuotedAttr(4, "minSdkVersion", v)>> : v \in {Dec20, Dec21, DecZero, S_Abc, FormFeed20}}
    \cup {<<TypedAttr(4, "minSdkVersion", v)>> : v \in {Hex14, MinusOne}}

SdkLines == {<<ElementLineOf(2, "uses-sdk")>>} \cup TargetSdkLines \cup MinSdkLines

SdkInputs == {text \o <<BlankLine>> : text \in Inputs(SdkLines, MaxSdkLines)}

InitSdk == InitWith(SdkInputs, {<<>>})

SpecSdk == InitSdk /\ [][Next]_vars

\* the value of a text of decimal digits
RECURSIVE DigitsNumber(_)
DigitsNumber(text) ==
    IF text = <<>> THEN 0
    ELSE 10 * DigitsNumber(SubSeq(text, 1, Len(text) - 1))
         + (CHOOSE d \in 0..9 : DecDigits[d + 1] = text[Len(text)])

\* the white space a value of the inputs starts with
Padding == {" ", "\t", "\f"}

\* the text without the white space it starts with
RECURSIVE Unpadded(_)
Unpadded(text) ==
    IF text # <<>> /\ text[1] \in Padding THEN Unpadded(Tail(text)) ELSE text

\* the text is a decimal integer, with or without a minus sign
IsInteger(text) ==
    LET digits == IF text # <<>> /\ text[1] = "-" THEN Tail(text) ELSE text
    IN digits # <<>> /\ \A k \in DOMAIN digits : IsDecDigit(digits[k])

\* the integer the text is
IntegerOf(text) ==
    IF text[1] = "-" THEN 0 - DigitsNumber(Tail(text)) ELSE DigitsNumber(text)

\* the text is, after leading white space, an integer above 0 and below the
\* limit
IsBelow(text, limit) ==
    LET number == Unpadded(text)
    IN IsInteger(number) /\ IntegerOf(number) > 0 /\ IntegerOf(number) < limit

\* the findings whose text is the given one
FindingsReading(text) ==
    {n \in DOMAIN result.securityIssues : result.securityIssues[n].issue[1] = text}

\* C19: analyze emits the low targetSdk finding iff targetSdk is, after
\* leading white space, an integer above 0 and below 28, and the medium
\* minSdk finding iff minSdk is one above 0 and below 21, each citing the
\* number; an empty value, a word, 0, a negative number and a number from
\* the limit on raise no finding.
SdkFindings ==
    pc = "done" =>
        LET target == FindingsReading("Target SDK (${n}) is below 28.")
            min == FindingsReading("Minimum SDK (${n}) is below 21 (Lollipop).")
        IN /\ Cardinality(target) = IF IsBelow(result.targetSdk, 28) THEN 1 ELSE 0
           /\ \A n \in target : /\ result.securityIssues[n].severity = "low"
                                /\ result.securityIssues[n].issue[2] = Unpadded(result.targetSdk)
           /\ Cardinality(min) = IF IsBelow(result.minSdk, 21) THEN 1 ELSE 0
           /\ \A n \in min : /\ result.securityIssues[n].severity = "medium"
                             /\ result.securityIssues[n].issue[2] = Unpadded(result.minSdk)

\* targetSdkVersion 27 after a form feed and minSdkVersion "21": the
\* targetSdk finding is raised for 27 and no minSdk finding for 21
Sdk27FiresAnd21Not ==
    /\ pc = "done"
    /\ lines = <<ElementLineOf(2, "uses-sdk"), QuotedAttr(4, "targetSdkVersion", FormFeed27),
                 QuotedAttr(4, "minSdkVersion", Dec21), BlankLine>>
    /\ result.targetSdk = FormFeed27
    /\ result.securityIssues[2] = TargetSdkIssue(27)
    /\ result.minSdk = Dec21
    /\ Cardinality(FindingsReading("Target SDK (${n}) is below 28.")) = 1
    /\ FindingsReading("Minimum SDK (${n}) is below 21 (Lollipop).") = {}

\* ------------------------------------------------------------------------
\* Component attributes under nested elements
\* ------------------------------------------------------------------------
MaxAttributeBlocks == 3

S_Authority == <<"c", "o", "m", ".", "t", "e", "s", "t", ".", "d", "a", "t", "a">>

\* an activity and a provider with their names, nested elements, and the
\* six component attributes at the depth of a nested element's attributes
AttributeBlocks ==
    { <<ElementLineOf(4, "activity"), QuotedAttr(6, "name", S_Main)>>,
      <<ElementLineOf(4, "provider"), QuotedAttr(6, "name", S_Other)>>,
      <<ElementLineOf(6, "intent-filter"), ElementLineOf(8, "action")>>,
      <<ElementLineOf(6, "meta-data")>>,
      <<QuotedAttr(10, "name", S_ActionMain)>>,
      <<TypedAttr(10, "exported", HexTrue)>>,
      <<QuotedAttr(10, "permission", S_Perm)>>,
      <<QuotedAttr(10, "authorities", S_Authority)>>,
      <<QuotedAttr(10, "readPermission", S_Perm)>>,
      <<QuotedAttr(10, "writePermission", S_Perm)>> }

AttributeInputs ==
    {text \o <<BlankLine>> : text \in Inputs(AttributeBlocks, MaxAttributeBlocks)}

InitAttributes == InitWith(AttributeInputs, {<<>>})

SpecAttributes == InitAttributes /\ [][Next]_vars

\* the string an attribute line gives: its quoted text, or no value
StringGiven(l) == IF l.quoted THEN l.text ELSE Undefined

\* C20: while a component is open, an attribute line named name, exported
\* or permission sets that field of the open component under whatever
\* element it stands; authorities, readPermission and writePermission are
\* set when the open component is a provider and else leave it as it is; and
\* a component is appended under the name its last name line gave.
ComponentAttributesAnywhere ==
    [][pc = "loop" =>
           /\ (i <= Len(lines) /\ IsAttr(lines[i]) /\ currentComponent # Null =>
                   LET l == lines[i]
                   IN /\ (l.name = "name" => currentComponent'.name = NameGiven(l))
                      /\ (l.name = "exported" =>
                              currentComponent'.exported = LiteralIsTrue(l))
                      /\ (l.name = "permission" =>
                              /\ "permission" \in DOMAIN currentComponent'
                              /\ currentComponent'.permission = StringGiven(l))
                      /\ (l.name \in {"authorities", "readPermission", "writePermission"} =>
                              IF componentType = "provider"
                              THEN /\ l.name \in DOMAIN currentComponent'
                                   /\ currentComponent'[l.name] = StringGiven(l)
                              ELSE currentComponent' = currentComponent))
           /\ \A kind \in {"activity", "service", "receiver", "provider"} :
                  Len(ListOf(result', kind)) > Len(ListOf(result, kind)) =>
                      Last(ListOf(result', kind)).name = NameHeld(OpenLine)]_vars

\* an activity named .Main with a name line under the action element of its
\* intent-filter: it is appended under the action's name
AppendedUnderActionName ==
    /\ pc = "badging"
    /\ lines = <<ElementLineOf(4, "activity"), QuotedAttr(6, "name", S_Main),
                 ElementLineOf(6, "intent-filter"), ElementLineOf(8, "action"),
                 QuotedAttr(10, "name", S_ActionMain), BlankLine>>
    /\ result.activities =
           <<[name |-> S_ActionMain, exported |-> FALSE,
              intentFilters |-> <<[action |-> S_ActionMain]>>]>>

\* ------------------------------------------------------------------------
\* Intent-filter scopes
\* ------------------------------------------------------------------------
MaxFilterBlocks == 4

S_Https == <<"h", "t", "t", "p", "s">>

\* an activity, a receiver two levels deeper, and an intent-filter under
\* the activity with action, category and data children
FilterBlocks ==
    { <<ElementLineOf(4, "activity"), QuotedAttr(6, "name", S_Main)>>,
      <<ElementLineOf(8, "receiver"), QuotedAttr(10, "name", S_Other)>>,
      <<ElementLineOf(6, "intent-filter")>>,
      <<ElementLineOf(8, "action"), QuotedAttr(10, "name", S_ActionMain)>>,
      <<ElementLineOf(8, "action"), QuotedAttr(10, "name", S_ActionCustom)>>,
      <<ElementLineOf(8, "category"), QuotedAttr(10, "name", S_CategoryLauncher)>>,
      <<ElementLineOf(8, "data"), QuotedAttr(10, "scheme", S_Https)>> }

FilterInputs == {text \o <<BlankLine>> : text \in Inputs(FilterBlocks, MaxFilterBlocks)}

InitFilters == InitWith(FilterInputs, {<<>>})

SpecFilters == InitFilters /\ [][Next]_vars

\* the next line is an element line that closes the open component, and
\* one that closes the open intent-filter
ClosesComponent ==
    /\ pc = "loop" /\ i <= Len(lines) /\ IsElement(lines[i])
    /\ currentComponent # Null /\ componentDepth >= Depth(lines[i])
ClosesFilter ==
    /\ pc = "loop" /\ i <= Len(lines) /\ IsElement(lines[i])
    /\ inIntentFilter /\ intentFilterDepth >= Depth(lines[i])

\* the list of a kind after the open component was closed as it is
ListAfterClosure(kind) ==
    IF kind = componentType /\ currentComponent.name # <<>>
    THEN Append(ListOf(result, kind), currentComponent)
    ELSE ListOf(result, kind)

\* C21: on an element line the component closes first, against its own
\* depth, and is appended as it is; an intent-filter that the same line
\* closes is then discarded. A filter closed by a line that leaves the
\* component open is appended to that component, and to nothing else.
ComponentClosesBeforeFilter ==
    [][pc = "loop" /\ i <= Len(lines) /\ IsElement(lines[i]) =>
           /\ \A kind \in {"activity", "service", "receiver", "provider"} :
                  ListOf(result', kind) =
                      IF ClosesComponent THEN ListAfterClosure(kind) ELSE ListOf(result, kind)
           /\ (ClosesFilter =>
                   /\ inIntentFilter' = (lines[i].name = "intent-filter")
                   /\ currentIntentFilter' = EmptyObject)
           /\ (ClosesFilter /\ ClosesComponent =>
                   \/ currentComponent' = Null
                   \/ "intentFilters" \notin DOMAIN currentComponent'
                   \/ currentComponent'.intentFilters = <<>>)
           /\ (lines[i].name \notin ComponentTags /\ ~ClosesComponent =>
                   currentComponent' =
                       IF /\ ClosesFilter /\ currentComponent # Null
                          /\ "intentFilters" \in DOMAIN currentComponent
                       THEN [currentComponent EXCEPT
                                !.intentFilters = Append(@, currentIntentFilter)]
                       ELSE currentComponent)]_vars

\* an activity with an open intent-filter that has an action was closed by
\* the next activity line: it is in the list without intent-filter and no
\* filter is open
OpenFilterDiscarded ==
    /\ pc = "loop" /\ i = 7
    /\ lines[3] = ElementLineOf(6, "intent-filter")
    /\ lines[4] = ElementLineOf(8, "action")
    /\ lines[6] = ElementLineOf(4, "activity")
    /\ result.activities =
           <<[name |-> S_ActionMain, exported |-> FALSE, intentFilters |-> <<>>]>>
    /\ ~inIntentFilter
    /\ currentComponent.intentFilters = <<>>

\* ------------------------------------------------------------------------
\* Numeric attributes written as unprefixed integer literals
\* ------------------------------------------------------------------------
MaxDecimalLines == 3

Dec9 == <<"9">>
Dec10 == <<"1", "0">>

\* A: android:<name>(0x..)=<text>, a literal without (type ...) prefix
BareAttr(indent, name, text) ==
    [indent |-> indent, marker |-> "A", name |-> name, quoted |-> FALSE,
     typed |-> FALSE, text |-> text]

\* versionCode under manifest, minSdkVersion and targetSdkVersion under
\* uses-sdk, written as decimal literals with and without type prefix
DecimalLines ==
    { <<NamespaceLine, ElementLineOf(0, "manifest")>>,
      <<ElementLineOf(2, "uses-sdk")>>,
      <<TypedAttr(2, "versionCode", Dec10)>>,
      <<BareAttr(2, "versionCode", Dec9)>>,
      <<TypedAttr(4, "minSdkVersion", Dec21)>>,
      <<BareAttr(4, "minSdkVersion", MinusOne)>>,
      <<TypedAttr(4, "targetSdkVersion", Dec33)>>,
      <<BareAttr(4, "targetSdkVersion", Dec9)>> }

InitDecimal == InitWith(Inputs(DecimalLines, MaxDecimalLines), {<<>>})

SpecDecimal == InitDecimal /\ [][Next]_vars

\* the line gives an unprefixed integer literal
IsDecimalLiteral(l) == IsAttr(l) /\ ~l.quoted /\ IsInteger(l.text)

\* the field after line k is read: the literal's own decimal text when the
\* line has the attribute name and lies under the element
DecimalFieldAfter(k, field, attr, element) ==
    IF lines[k].name = attr /\ EnclosingElement(k) = element
    THEN lines[k].text ELSE field

\* C22: a versionCode, minSdkVersion or targetSdkVersion line with an
\* unprefixed integer literal stores the decimal string of that integer.
DecimalLiteralStoredAsItIs ==
    [][pc = "loop" /\ i <= Len(lines) /\ IsDecimalLiteral(lines[i]) =>
           /\ result'.versionCode =
                  DecimalFieldAfter(i, result.versionCode, "versionCode", "manifest")
           /\ result'.minSdk =
                  DecimalFieldAfter(i, result.minSdk, "minSdkVersion", "uses-sdk")
           /\ result'.targetSdk =
                  DecimalFieldAfter(i, result.targetSdk, "targetSdkVersion", "uses-sdk")]_vars

\* ------------------------------------------------------------------------
\* Export inference without a readable targetSdk
\* ------------------------------------------------------------------------
MaxUnparsedBlocks == 4

FormFeed31 == <<"\f", "3", "1">>

\* targetSdkVersion as a word, as the empty string, as a form feed alone and
\* as 31 after a form feed; an activity and a receiver; an intent-filter
\* closed by a meta-data element
UnparsedBlocks ==
    { <<ElementLineOf(2, "uses-sdk"), QuotedAttr(4, "targetSdkVersion", S_Abc)>>,
      <<ElementLineOf(2, "uses-sdk"), QuotedAttr(4, "targetSdkVersion", <<>>)>>,
      <<ElementLineOf(2, "uses-sdk"), QuotedAttr(4, "targetSdkVersion", <<"\f">>)>>,
      <<ElementLineOf(2, "uses-sdk"), QuotedAttr(4, "targetSdkVersion", FormFeed31)>>,
      <<ElementLineOf(4, "activity"), QuotedAttr(6, "name", S_Main)>>,
      <<ElementLineOf(4, "receiver"), QuotedAttr(6, "name", S_Other)>>,
      <<ElementLineOf(6, "intent-filter"), ElementLineOf(6, "meta-data")>> }

UnparsedInputs == {text \o <<BlankLine>> : text \in Inputs(UnparsedBlocks, MaxUnparsedBlocks)}

InitUnparsed == InitWith(UnparsedInputs, {<<>>, <<BadgingTargetSdk(Dec33)>>})

SpecUnparsed == InitUnparsed /\ [][Next]_vars

\* the text does not start, after leading white space, with an integer
NotAnInteger(text) ==
    LET number == Unpadded(text)
        digits == IF number # <<>> /\ number[1] \in {"-", "+"} THEN Tail(number) ELSE number
    IN digits = <<>> \/ ~IsDecDigit(digits[1])

\* C23: when targetSdk, after the back-fill, is empty or no integer, the
\* inference applies as for 0: every activity and receiver with an
\* intent-filter is exported from the inference on, and the analysis raises
\* no targetSdk finding.
UnreadableTargetSdkInfersAsZero ==
    NotAnInteger(result.targetSdk) =>
        /\ (pc \in {"analyze", "done"} =>
                /\ FilterOwnersExported(result.activities)
                /\ FilterOwnersExported(result.receivers))
        /\ (pc = "done" => FindingsReading("Target SDK (${n}) is below 28.") = {})

\* targetSdkVersion "abc" is kept against the badging value 33, and the
\* receiver with an intent-filter ends exported
ExportedUnderWordTargetSdk ==
    /\ pc = "done"
    /\ badging = <<BadgingTargetSdk(Dec33)>>
    /\ result.targetSdk = S_Abc
    /\ result.receivers =
           <<[name |-> S_Other, exported |-> TRUE, intentFilters |-> <<EmptyObject>>]>>
    /\ lines[5].name = "intent-filter"

\* the first list is a prefix of the second
IsPrefix(before, after) ==
    Len(after) >= Len(before) /\ SubSeq(after, 1, Len(before)) = before

\* the two lists hold the same components but for their exported flags
SameButExported(before, after) ==
    /\ Len(after) = Len(before)
    /\ \A k \in DOMAIN before : SetField(after[k], "exported", before[k].exported) = before[k]

\* C24: a component in a list is never changed, removed or moved by a later
\* line: during the line pass and the end of input every list only grows at
\* its end; the back-fill and the analysis leave the lists as they are, and
\* the inference changes nothing but exported flags of activities and
\* receivers.
AppendedComponentsAreFinal ==
    [][/\ (pc = "loop" =>
               \A kind \in {"activity", "service", "receiver", "provider"} :
                   IsPrefix(ListOf(result, kind), ListOf(result', kind)))
       /\ (pc \in {"badging", "analyze"} => Lists(result') = Lists(result))
       /\ (pc = "infer" =>
               /\ SameButExported(result.activities, result'.activities)
               /\ SameButExported(result.receivers, result'.receivers)
               /\ result'.services = result.services
               /\ result'.providers = result.providers)]_vars

\* the first activity was appended with the intent-filter a second
\* intent-filter line closed, before the lines of the second activity were
\* read; at the end it differs from the appended one by the exported flag
\* the inference set
FirstActivityKeptAndInferred ==
    /\ pc = "done"
    /\ Len(lines) = 7
    /\ lines[3] = ElementLineOf(6, "intent-filter")
    /\ lines[4] = ElementLineOf(6, "intent-filter")
    /\ result.activities =
           <<[name |-> S_Main, exported |-> TRUE, intentFilters |-> <<EmptyObject>>],
             [name |-> S_Main, exported |-> FALSE, intentFilters |-> <<>>]>>

\* the attribute line is a name line under the given child of an open filter
FilterChildName(child) ==
    /\ pc = "loop" /\ i <= Len(lines) /\ IsNameAttr(lines[i])
    /\ inIntentFilter /\ EnclosingElement(i) = child

\* the open filter after the step has the field with the value line i gives
\* and is otherwise as before
FilterFieldReplaced(field) ==
    /\ field \in DOMAIN currentIntentFilter'
    /\ currentIntentFilter'[field] = StringGiven(lines[i])
    /\ DOMAIN currentIntentFilter' = DOMAIN currentIntentFilter \cup {field}
    /\ \A f \in DOMAIN currentIntentFilter \ {field} :
           currentIntentFilter'[f] = currentIntentFilter[f]

\* C25: a name line under an action element of the open filter replaces the
\* filter's action, one under a category element its category, so that a
\* filter holds the last of each; an intent-filter element line starts the
\* next filter with no action, category or data.
FilterKeepsLastActionAndCategory ==
    [][/\ (FilterChildName("action") => FilterFieldReplaced("action"))
       /\ (FilterChildName("category") => FilterFieldReplaced("category"))
       /\ (/\ pc = "loop" /\ i <= Len(lines) /\ IsElement(lines[i])
           /\ lines[i].name = "intent-filter"
           => inIntentFilter' /\ currentIntentFilter' = EmptyObject)]_vars

\* two action elements under one filter: the filter was appended with the
\* action of the second
LastActionKept ==
    /\ pc = "done"
    /\ Len(lines) = 8
    /\ lines[3] = ElementLineOf(6, "intent-filter")
    /\ lines[5] = QuotedAttr(10, "name", S_ActionMain)
    /\ lines[7] = QuotedAttr(10, "name", S_ActionCustom)
    /\ Len(result.activities) = 1
    /\ result.activities[1].intentFilters = <<[action |-> S_ActionCustom]>>

\* the element line of the open component: the last component line
OwnLine ==
    LET own == {k \in 1..Len(lines) : IsElement(lines[k]) /\ lines[k].name \in ComponentTags}
    IN CHOOSE k \in own : \A m \in own : k >= m

\* the intent-filter element lines after line k
FilterLinesAfter(k) ==
    {m \in (k + 1)..Len(lines) : IsElement(lines[m]) /\ lines[m].name = "intent-filter"}

\* C28: the filters of a component were opened by intent-filter lines after
\* the component's own element line: the component appended at the end of
\* the input has no more filters than there are such lines.
FiltersOpenedInsideComponent ==
    [][/\ pc = "loop" /\ i > Len(lines)
       /\ currentComponent # Null /\ componentType \in FilterOwnerTags
       /\ Len(ListOf(result', componentType)) > Len(ListOf(result, componentType))
       => Len(Last(ListOf(result', componentType)).intentFilters)
              <= Cardinality(FilterLinesAfter(OwnLine))]_vars

\* ------------------------------------------------------------------------
\* Permissions and their protection levels
\* ------------------------------------------------------------------------
MaxLevelBlocks == 3

S_ComTest == <<"c", "o", "m", ".", "t", "e", "s", "t", ".">>
S_WriteSettings ==
    AndroidPermission(<<"W", "R", "I", "T", "E", "_", "S", "E", "T", "T", "I", "N", "G", "S">>)
S_BindJob == S_ComTest \o <<"B", "I", "N", "D", "_", "J", "O", "B">>
S_UnbindJob == S_ComTest \o <<"U", "N", "B", "I", "N", "D", "_", "J", "O", "B">>
S_Dangerous == <<"d", "a", "n", "g", "e", "r", "o", "u", "s">>

\* uses-permission elements naming a dangerous permission, a normal one, one
\* of the signature set, one whose simple name starts with BIND_ and one
\* with BIND_ inside its simple name; an empty and an unquoted name; a name
\* line read again under the same element, a protectionLevel attribute, and
\* the name under an application element
LevelBlocks ==
    { PermissionBlock(S_Camera), PermissionBlock(S_Internet),
      PermissionBlock(S_WriteSettings), PermissionBlock(S_BindJob),
      PermissionBlock(S_UnbindJob), PermissionBlock(<<>>),
      <<ElementLineOf(2, "uses-permission"), TypedAttr(4, "name", HexOne)>>,
      <<QuotedAttr(4, "name", S_Camera)>>,
      <<QuotedAttr(4, "protectionLevel", S_Dangerous)>>,
      <<ElementLineOf(2, "application"), QuotedAttr(4, "name", S_Camera)>> }

LevelInputs == {text \o <<BlankLine>> : text \in Inputs(LevelBlocks, MaxLevelBlocks)}

InitLevels == InitWith(LevelInputs, {<<>>})

SpecLevels == InitLevels /\ [][Next]_vars

\* the part of a permission name after its last dot
RECURSIVE SimpleName(_)
SimpleName(name) ==
    IF \E k \in DOMAIN name : name[k] = "."
    THEN SimpleName(Tail(name)) ELSE name

\* the level by the two sets and BIND_ at the start of the simple name
LevelByPrefix(name) ==
    IF name \in DANGEROUS_PERMISSIONS THEN "dangerous"
    ELSE IF name \in SIGNATURE_PERMISSIONS \/ StartsWith(SimpleName(name), S_BIND)
         THEN "signature"
    ELSE "normal"

\* C26: the protectionLevel of every permission is the level its name gives:
\* dangerous in the dangerous set, else signature in the signature set or
\* with BIND_ at the start of the simple name, else normal.
LevelFollowsNameByPrefix ==
    \A k \in DOMAIN result.permissions :
        result.permissions[k].protectionLevel = LevelByPrefix(result.permissions[k].name)

\* line k is a name line with a non-empty quoted value under uses-permission
IsPermissionLine(k) ==
    /\ IsNameAttr(lines[k]) /\ lines[k].quoted /\ lines[k].text # <<>>
    /\ EnclosingElement(k) = "uses-permission"

\* the names the permission lines among the first k lines give, in order
RECURSIVE PermissionNamesUpTo(_)
PermissionNamesUpTo(k) ==
    IF k = 0 THEN <<>>
    ELSE PermissionNamesUpTo(k - 1)
         \o (IF IsPermissionLine(k) THEN <<lines[k].text>> ELSE <<>>)

\* C27: permissions is the sequence of the names given by the name lines
\* with a non-empty quoted value read under uses-permission, in the order
\* of the lines and with repetitions, each with the level of its name.
PermissionsFollowNameLines ==
    LET read == IF pc = "loop" THEN i - 1 ELSE Len(lines)
    IN /\ NamesOf(result.permissions) = PermissionNamesUpTo(read)
       /\ \A k \in DOMAIN result.permissions :
              /\ DOMAIN result.permissions[k] = {"name", "protectionLevel"}
              /\ result.permissions[k].protectionLevel =
                     getPermissionProtectionLevel(result.permissions[k].name)

\* CAMERA requested twice under uses-permission and named once under
\* application: two entries
PermissionListedTwice ==
    /\ pc = "done"
    /\ Len(lines) = 7
    /\ lines[3] = ElementLineOf(2, "application")
    /\ lines[4] = QuotedAttr(4, "name", S_Camera)
    /\ result.permissions =
           <<[name |-> S_Camera, protectionLevel |-> "dangerous"],
             [name |-> S_Camera, protectionLevel |-> "dangerous"]>>

\* ------------------------------------------------------------------------
\* The package line of the badging text
\* ------------------------------------------------------------------------
\* the first of the given positions of the badging text, or 0
FirstEntry(found) ==
    IF found = {} THEN 0 ELSE CHOOSE k \in found : \A m \in found : k <= m

IsFullPackage(entry) ==
    /\ entry.key = "package"
    /\ entry.name # <<>> /\ entry.versionCode # <<>> /\ entry.versionName # <<>>
IsSdkVersion(entry) == entry.key = "sdkVersion" /\ EntryMatches(entry)
IsTargetSdkVersion(entry) == entry.key = "targetSdkVersion" /\ EntryMatches(entry)

\* the field after the back-fill: the given value when the field is empty
\* and the text has the line, else the field as it was
FilledFrom(field, k, value) ==
    result'[field] = IF k # 0 /\ result[field] = <<>> THEN value ELSE result[field]

\* C29: package, versionCode and versionName are back-filled from the
\* first package line that gives all three non-empty, each when empty; a
\* text without such a line fills none of the three. minSdk is filled from
\* the first sdkVersion number and targetSdk from the first targetSdkVersion
\* number, whatever the package line and each other.
PackageTripleAllOrNothing ==
    [][pc = "badging" =>
           LET p == FirstEntry({k \in DOMAIN badging : IsFullPackage(badging[k])})
               m == FirstEntry({k \in DOMAIN badging : IsSdkVersion(badging[k])})
               t == FirstEntry({k \in DOMAIN badging : IsTargetSdkVersion(badging[k])})
           IN /\ FilledFrom("package", p, badging[p].name)
              /\ FilledFrom("versionCode", p, badging[p].versionCode)
              /\ FilledFrom("versionName", p, badging[p].versionName)
              /\ FilledFrom("minSdk", m, badging[m].value)
              /\ FilledFrom("targetSdk", t, badging[t].value)]_vars

\* a package line with an empty versionName and sdkVersion:'19', for a dump
\* without package, versionCode and minSdk: minSdk was filled, package and
\* versionCode were not
PartialPackageLineFillsNothing ==
    /\ pc = "infer"
    /\ badging = <<BadgingPackage(S_OrgOther, Dec2, <<>>), BadgingEntry("sdkVersion", Dec19)>>
    /\ result.package = <<>>
    /\ result.versionCode = <<>>
    /\ result.versionName = S_OneZero
    /\ result.minSdk = Dec19

\* ------------------------------------------------------------------------
\* The number of findings
\* ------------------------------------------------------------------------
MaxFindingBlocks == 3

\* a component of the given tag and name without exported attribute
PlainBlock(tag, name) == <<ElementLineOf(4, tag), QuotedAttr(6, "name", name)>>

\* the blocks raising the five manifest-wide findings, and components of
\* the four kinds, exported and not, two of them under one name
FindingBlocks ==
    { LowSdkBlock, SixDangerousBlock, DebuggableBlock,
      ExportedBlock("activity", S_Main), PlainBlock("activity", S_Other),
      ExportedBlock("service", S_Main), PlainBlock("service", S_Main),
      CustomReceiverBlock,
      ExportedBlock("provider", S_Main), PlainBlock("provider", S_Other) }

FindingInputs == {text \o <<BlankLine>> : text \in Inputs(FindingBlocks, MaxFindingBlocks)}

InitFindings == InitWith(FindingInputs, {<<>>})

SpecFindings == InitFindings /\ [][Next]_vars

\* the list the findings of a component rule are about
ListOfRule(rule) ==
    CASE rule = 3 -> result.activities
      [] rule = 4 -> result.services
      [] rule = 5 -> result.receivers
      [] rule = 6 -> result.providers

\* the findings of the rule that name the component
FindingsOfRuleNaming(rule, name) ==
    {n \in DOMAIN result.securityIssues :
        /\ "component" \in DOMAIN result.securityIssues[n]
        /\ RuleOf(result.securityIssues[n]) = rule
        /\ result.securityIssues[n].component = name}

\* the exported entries of a list under the name
ExportedNamed(list, name) ==
    {k \in DOMAIN list : list[k].name = name /\ list[k].exported = TRUE}

\* C30: in the analyzed document every finding with a component is of a
\* component rule and names an exported component of that rule's list, no
\* more findings of a rule name a component than the list has exported
\* entries of that name, at most five findings have no component, and the
\* findings are no more than the components of the four lists plus five.
FindingsBoundedByComponents ==
    pc = "done" =>
        LET issues == result.securityIssues
            named == {n \in DOMAIN issues : "component" \in DOMAIN issues[n]}
        IN /\ \A n \in named :
                  /\ RuleOf(issues[n]) \in 3..6
                  /\ ExportedNamed(ListOfRule(RuleOf(issues[n])), issues[n].component) # {}
                  /\ Cardinality(FindingsOfRuleNaming(RuleOf(issues[n]), issues[n].component))
                         <= Cardinality(ExportedNamed(ListOfRule(RuleOf(issues[n])),
                                                      issues[n].component))
           /\ Cardinality(DOMAIN issues \ named) <= 5
           /\ Len(issues) <= Len(result.activities) + Len(result.services)
                              + Len(result.receivers) + Len(result.providers) + 5

\* two services named .Main, one exported: one service finding next to the
\* debuggable and allowBackup findings
OneFindingForTwoServices ==
    /\ pc = "done"
    /\ Len(result.services) = 2
    /\ result.services[1].exported /\ ~result.services[2].exported
    /\ result.services[2].name = S_Main
    /\ result.securityIssues =
           <<DebuggableIssue, AllowBackupIssue, ServiceIssue(result.services[1])>>

====
